---- MODULE Spec2Model ----
(***************************************************************************)
(* A model of the SEO content difference engine (src/src/engine).          *)
(*                                                                         *)
(* Spec          JobRunner.run_job_async: validation, the per-URL tasks    *)
(*               under the shared asyncio.Semaphore, the gather join and   *)
(*               the aggregation into a JobResult.                         *)
(* FairSpec      the same actions with the fairness of the event loop and  *)
(*               of collaborators that eventually return or raise.         *)
(* SpecURLInput  URLInput.__post_init__ applied to arbitrary values.       *)
(* SpecDiffer    ContentDiffer.compare applied to pairs of contents.       *)
(* SpecExtractor ContentExtractor.extract applied to parsed documents.     *)
(* SpecFetcher   RawHTMLFetcher.fetch and JSRenderedFetcher.fetch against  *)
(*               everything the HTTP client and the browser can do.        *)
(*                                                                         *)
(* Python strings are sequences of one-character strings.  An optional     *)
(* value (X | None) is a sequence of length at most one: <<>> is None.     *)
(***************************************************************************)
EXTENDS Integers, Sequences, FiniteSets, TLC

\* ------------------------------------------------------------------ bounds
\* longest input list handed to run_job_async
MaxUrls == 2
\* largest max_concurrency the runner is constructed with
MaxK == 2
\* longest run of whitespace put around a URLInput argument
MaxPad == 2
\* most words in a text handed to ContentDiffer
MaxWords == 3
\* longest list of headings, and of links, handed to ContentDiffer
MaxItems == 2
\* most elements in a generated HTML document
MaxNodes == 2

\* ----------------------------------------------------------------- strings
Whitespace == {" ", "\t"}

LowerChar(c) ==
    CASE c = "A" -> "a" [] c = "B" -> "b" [] c = "C" -> "c" [] c = "D" -> "d"
      [] c = "E" -> "e" [] c = "F" -> "f" [] c = "G" -> "g" [] c = "H" -> "h"
      [] c = "I" -> "i" [] c = "J" -> "j" [] c = "K" -> "k" [] c = "L" -> "l"
      [] c = "M" -> "m" [] c = "N" -> "n" [] c = "O" -> "o" [] c = "P" -> "p"
      [] c = "Q" -> "q" [] c = "R" -> "r" [] c = "S" -> "s" [] c = "T" -> "t"
      [] c = "U" -> "u" [] c = "V" -> "v" [] c = "W" -> "w" [] c = "X" -> "x"
      [] c = "Y" -> "y" [] c = "Z" -> "z" [] OTHER -> c

\* str.lower()
lower(s) == [i \in 1..Len(s) |-> LowerChar(s[i])]

RECURSIVE lstrip(_)
lstrip(s) == IF s # <<>> /\ Head(s) \in Whitespace THEN lstrip(Tail(s)) ELSE s

RECURSIVE rstrip(_)
rstrip(s) ==
    IF s # <<>> /\ s[Len(s)] \in Whitespace
    THEN rstrip(SubSeq(s, 1, Len(s) - 1))
    ELSE s

\* str.strip()
strip(s) == rstrip(lstrip(s))

\* str.startswith(p)
startswith(s, p) == Len(s) >= Len(p) /\ SubSeq(s, 1, Len(p)) = p

HTTP == <<"h", "t", "t", "p", ":", "/", "/">>
HTTPS == <<"h", "t", "t", "p", "s", ":", "/", "/">>

\* ---------------------------------------------------------------- URLInput
\* A Python value handed to URLInput: a str, None or an int.
PyStr(s) == [type |-> "str", s |-> s]
PyNone == [type |-> "NoneType", s |-> <<>>]
PyInt(digits) == [type |-> "int", s |-> digits]

\* bool(v)
truthy(v) ==
    CASE v.type = "str" -> v.s # <<>>
      [] v.type = "int" -> v.s # <<"0">>
      [] OTHER -> FALSE

\* URLInput.__post_init__: "ok" when construction succeeds, url unchanged;
\* "ValueError" when it raises.
URLInput(v) ==
    IF ~truthy(v) \/ v.type # "str"
    THEN "ValueError"
    ELSE LET url_lower == strip(lower(v.s))
         IN  IF ~(startswith(url_lower, HTTP) \/ startswith(url_lower, HTTPS))
             THEN "ValueError"
             ELSE "ok"

\* ------------------------------------------------- the job's input strings
URL_A == HTTP \o <<"a">>
URL_B == HTTPS \o <<"b">>
\* lines as read from an input file: valid, padded, blank and invalid ones
InputStrings ==
    { URL_A, <<" ">> \o URL_A \o <<"\t">>, URL_B,
      <<"f", "t", "p", ":", "/", "/", "c">>, <<" ">> }

InputLists == UNION { [1..n -> InputStrings] : n \in 0..MaxUrls }

\* the task indices any of these inputs can lead to: one per distinct valid line
TaskIds ==
    1..Cardinality({u \in {strip(s) : s \in InputStrings} : URLInput(PyStr(u)) = "ok"})

\* ---------------------------------------- JobRunner._validate_and_deduplicate
\* the line is validated as read, without the strip
clean_line_nostrip(url) == url

\* url = url.strip()
clean_line(url) == strip(url)

\* the loop that fills the set `validated`
RECURSIVE validated_set(_)
validated_set(urls) ==
    IF urls = <<>> THEN {}
    ELSE LET url == clean_line(Head(urls))
             rest == validated_set(Tail(urls))
         IN  IF url = <<>> THEN rest
             ELSE IF URLInput(PyStr(url)) = "ok" THEN {url} \cup rest
             ELSE rest

\* list(validated): a Python set of str iterates in hash order, which
\* changes from one interpreter run to the next (hash randomisation), so
\* any arrangement of the elements can come out.
list_of_set(S) ==
    { q \in [1..Cardinality(S) -> S] : \A i, j \in DOMAIN q : q[i] = q[j] => i = j }

\* ------------------------------------------------------ collaborator returns
\* HTML documents, told apart only by whether ContentExtractor.extract raises
\* ("page" parses, "broken" makes it raise)
\* str | None returned as the second component of a fetch
ErrorMessages == {<<>>, <<"E">>}

\* what redirects turn a requested URL into
redirected(url) == url \o <<"/", "r">>

RawFetchResults(url) ==
    { [url |-> redirected(url), original_url |-> url, status_code |-> sc, html |-> h] :
        <<sc, h>> \in {<<200, "page">>, <<404, "page">>, <<200, "broken">>} }

RenderedFetchResults(url) ==
    { [url |-> redirected(url), original_url |-> url, html |-> h, success |-> ok] :
        <<h, ok>> \in {<<"page", TRUE>>, <<"broken", TRUE>>, <<"page", FALSE>>} }

\* (outcome | None, error | None) pairs the raw fetcher can hand back: an
\* outcome alone, an error alone, neither, and both at once
RawReturns(url) ==
    {[outcome |-> <<r>>, error |-> <<>>] : r \in RawFetchResults(url)}
    \cup {[outcome |-> <<>>, error |-> e] : e \in ErrorMessages}
    \cup {[outcome |-> <<r>>, error |-> <<"E">>] :
            r \in {x \in RawFetchResults(url) : x.status_code = 200 /\ x.html = "page"}}

\* pairs the rendered fetcher can hand back: an outcome alone (whose own
\* success flag may be false) or an error alone
RenderedReturns(url) ==
    {[outcome |-> <<r>>, error |-> <<>>] : r \in RenderedFetchResults(url)}
    \cup {[outcome |-> <<>>, error |-> <<"E">>]}

\* bool(x) of a str | None
truthy_msg(e) == e # <<>> /\ e[1] # ""

\* ------------------------------------------------- extractor and differ, as
\* the orchestrator sees them
extractor_raises(html) == html = "broken"
\* the ExtractedContent of a document, named by what it was extracted from
extract(html, base_url) == [html |-> html, base_url |-> base_url]
\* the DifferenceReport of two contents, named by its operands
compare(raw, rendered) == [raw |-> raw, rendered |-> rendered]

\* ------------------------------------------------------------- URLAnalysis
\* success that forgets to ask for the raw extraction
success_ignores_content(a) ==
    /\ Len(a.fetch_errors) = 0
    /\ Len(a.render_errors) = 0
    /\ Len(a.extraction_errors) = 0

\* URLAnalysis.success
success(a) ==
    /\ Len(a.fetch_errors) = 0
    /\ Len(a.render_errors) = 0
    /\ Len(a.extraction_errors) = 0
    /\ a.raw_content # <<>>

\* a returned error message that is not recorded
record_error_dropped(errors, err) == errors

\* `if err: errors.append(err)`
record_error(errors, err) == IF truthy_msg(err) THEN Append(errors, err[1]) ELSE errors

\* the frame of _process_url between the raw fetch and the rendered fetch
NoFrame == [raw_fetch |-> <<>>, fetch_errors |-> <<>>, http_status |-> 0, final_url |-> <<>>]

\* a raw outcome whose status is not 2xx treated as a failed fetch
after_raw_fetch_checking_status(url, raw_fetch, raw_error) ==
    IF truthy_msg(raw_error) \/ raw_fetch = <<>>
    THEN [raw_fetch |-> raw_fetch,
          fetch_errors |-> record_error(<<>>, raw_error),
          http_status |-> 0,
          final_url |-> url]
    ELSE [raw_fetch |-> raw_fetch,
          fetch_errors |->
              IF raw_fetch[1].status_code >= 200 /\ raw_fetch[1].status_code < 300
              THEN <<>> ELSE <<"HTTP error">>,
          http_status |-> raw_fetch[1].status_code,
          final_url |-> raw_fetch[1].url]

\* lines 171-185: the locals after the raw fetch returned (raw_fetch, raw_error)
after_raw_fetch(url, raw_fetch, raw_error) ==
    IF truthy_msg(raw_error) \/ raw_fetch = <<>>
    THEN [raw_fetch |-> raw_fetch,
          fetch_errors |-> record_error(<<>>, raw_error),
          http_status |-> 0,
          final_url |-> url]
    ELSE [raw_fetch |-> raw_fetch,
          fetch_errors |-> <<>>,
          http_status |-> raw_fetch[1].status_code,
          final_url |-> raw_fetch[1].url]

\* extraction of every rendered outcome, whatever its success flag says
finish_url_ignoring_success(url, frame, rendered_fetch, render_errors, differ_raises) ==
    LET raw_fetch == frame.raw_fetch
        raw_raises == raw_fetch # <<>> /\ extractor_raises(raw_fetch[1].html)
        raw_content ==
            IF raw_fetch # <<>> /\ ~raw_raises
            THEN <<extract(raw_fetch[1].html, raw_fetch[1].url)>>
            ELSE <<>>
        errors1 == IF raw_raises THEN <<"Raw content extraction failed">> ELSE <<>>
        do_rendered == rendered_fetch # <<>>
        rendered_raises == do_rendered /\ extractor_raises(rendered_fetch[1].html)
        rendered_content ==
            IF do_rendered /\ ~rendered_raises
            THEN <<extract(rendered_fetch[1].html, rendered_fetch[1].url)>>
            ELSE <<>>
        errors2 ==
            IF rendered_raises
            THEN Append(errors1, "Rendered content extraction failed")
            ELSE errors1
        do_compare == raw_content # <<>> /\ rendered_content # <<>>
        differences ==
            IF do_compare /\ ~differ_raises
            THEN <<compare(raw_content[1], rendered_content[1])>>
            ELSE <<>>
        errors3 ==
            IF do_compare /\ differ_raises
            THEN Append(errors2, "Content comparison failed")
            ELSE errors2
    IN  [url |-> url,
         final_url |-> frame.final_url,
         http_status |-> frame.http_status,
         raw_fetch |-> raw_fetch,
         rendered_fetch |-> rendered_fetch,
         raw_content |-> raw_content,
         rendered_content |-> rendered_content,
         differences |-> differences,
         fetch_errors |-> frame.fetch_errors,
         render_errors |-> render_errors,
         extraction_errors |-> errors3]

\* lines 196-235: extraction, comparison and the URLAnalysis that is returned
finish_url(url, frame, rendered_fetch, render_errors, differ_raises) ==
    LET raw_fetch == frame.raw_fetch
        raw_raises == raw_fetch # <<>> /\ extractor_raises(raw_fetch[1].html)
        raw_content ==
            IF raw_fetch # <<>> /\ ~raw_raises
            THEN <<extract(raw_fetch[1].html, raw_fetch[1].url)>>
            ELSE <<>>
        errors1 == IF raw_raises THEN <<"Raw content extraction failed">> ELSE <<>>
        do_rendered == rendered_fetch # <<>> /\ rendered_fetch[1].success
        rendered_raises == do_rendered /\ extractor_raises(rendered_fetch[1].html)
        rendered_content ==
            IF do_rendered /\ ~rendered_raises
            THEN <<extract(rendered_fetch[1].html, rendered_fetch[1].url)>>
            ELSE <<>>
        errors2 ==
            IF rendered_raises
            THEN Append(errors1, "Rendered content extraction failed")
            ELSE errors1
        do_compare == raw_content # <<>> /\ rendered_content # <<>>
        differences ==
            IF do_compare /\ ~differ_raises
            THEN <<compare(raw_content[1], rendered_content[1])>>
            ELSE <<>>
        errors3 ==
            IF do_compare /\ differ_raises
            THEN Append(errors2, "Content comparison failed")
            ELSE errors2
    IN  [url |-> url,
         final_url |-> frame.final_url,
         http_status |-> frame.http_status,
         raw_fetch |-> raw_fetch,
         rendered_fetch |-> rendered_fetch,
         raw_content |-> raw_content,
         rendered_content |-> rendered_content,
         differences |-> differences,
         fetch_errors |-> frame.fetch_errors,
         render_errors |-> render_errors,
         extraction_errors |-> errors3]

\* lines 82-96: the record that stands for a task that raised
failed_analysis(validated, i) ==
    [url |-> validated[i],
     final_url |-> validated[i],
     http_status |-> 0,
     raw_fetch |-> <<>>,
     rendered_fetch |-> <<>>,
     raw_content |-> <<>>,
     rendered_content |-> <<>>,
     differences |-> <<>>,
     fetch_errors |-> <<"Unexpected error">>,
     render_errors |-> <<>>,
     extraction_errors |-> <<>>]

\* ------------------------------------------------------------------- state
VARIABLES
    urls,             \* the argument of run_job_async
    max_concurrency,  \* JobRunner.max_concurrency
    phase,            \* where run_job_async is: "init", "gather", "returned"
    validated_urls,   \* the list _validate_and_deduplicate returned
    semaphore,        \* asyncio.Semaphore._value
    pc,               \* per task: "pending", "raw_fetch", "rendered_fetch", "done", "raised"
    frame,            \* per task: the locals of _process_url across the rendered fetch
    results,          \* per task: what gather collected, <<>> while the task runs
    raw_log,          \* per task: what each raw_fetcher.fetch call did
    render_log,       \* per task: what each js_fetcher.fetch call did
    job,              \* the JobResult run_job_async returned, <<>> before
    arg,              \* the argument of the function examined on its own
    ret               \* what the call did; for URLInput "unset", "ok", "ValueError"

vars ==
    <<urls, max_concurrency, phase, validated_urls, semaphore, pc, frame,
      results, raw_log, render_log, job, arg, ret>>

job_vars ==
    <<urls, max_concurrency, phase, validated_urls, semaphore, pc, frame,
      results, raw_log, render_log, job>>

Tasks == DOMAIN pc

\* tasks inside `async with semaphore`
holders == {i \in Tasks : pc[i] \in {"raw_fetch", "rendered_fetch"}}

\* a task's entry in gather's result list
Returned(analysis) == <<[exception |-> FALSE, value |-> <<analysis>>]>>
Raised == <<[exception |-> TRUE, value |-> <<>>]>>

\* ---------------------------------------------------------- run_job_async
\* a limiter created one permit too large
semaphore_init_off_by_one(value) == value + 1

\* asyncio.Semaphore(self.max_concurrency)
semaphore_init(value) == value

\* a permit that is not given back
semaphore_release_leak(value) == value

\* leaving `async with semaphore`, by return or by exception
semaphore_release(value) == value + 1

\* lines 64-75: validation, the limiter, one task per validated URL, up to
\* the await of gather
StartJob ==
    /\ phase = "init"
    /\ \E validated \in list_of_set(validated_set(urls)) :
        /\ validated_urls' = validated
        /\ pc' = [i \in DOMAIN validated |-> "pending"]
        /\ frame' = [i \in DOMAIN validated |-> NoFrame]
        /\ results' = [i \in DOMAIN validated |-> <<>>]
        /\ raw_log' = [i \in DOMAIN validated |-> <<>>]
        /\ render_log' = [i \in DOMAIN validated |-> <<>>]
    /\ semaphore' = semaphore_init(max_concurrency)
    /\ phase' = "gather"
    /\ UNCHANGED <<urls, max_concurrency, job, arg, ret>>

\* a task that calls the raw fetcher before `async with semaphore`: it takes
\* no permit, but gives one back when it ends
EnterSemaphore_without_acquire(i) ==
    /\ phase = "gather"
    /\ pc[i] = "pending"
    /\ pc' = [pc EXCEPT ![i] = "raw_fetch"]
    /\ UNCHANGED <<urls, max_concurrency, phase, validated_urls, semaphore, frame,
                   results, raw_log, render_log, job, arg, ret>>

\* an acquire that does not wait when the limiter has no permit left
EnterSemaphore_not_blocking(i) ==
    /\ phase = "gather"
    /\ pc[i] = "pending"
    /\ semaphore' = semaphore - 1
    /\ pc' = [pc EXCEPT ![i] = "raw_fetch"]
    /\ UNCHANGED <<urls, max_concurrency, phase, validated_urls, frame, results,
                   raw_log, render_log, job, arg, ret>>

\* lines 170-176: the task enters `async with semaphore` and calls the raw
\* fetcher; a task finding the limiter locked waits
EnterSemaphore(i) ==
    /\ phase = "gather"
    /\ pc[i] = "pending"
    /\ semaphore > 0
    /\ semaphore' = semaphore - 1
    /\ pc' = [pc EXCEPT ![i] = "raw_fetch"]
    /\ UNCHANGED <<urls, max_concurrency, phase, validated_urls, frame, results,
                   raw_log, render_log, job, arg, ret>>

\* the task returns its URLAnalysis and leaves the semaphore
task_returns(i, analysis) ==
    /\ pc' = [pc EXCEPT ![i] = "done"]
    /\ frame' = [frame EXCEPT ![i] = NoFrame]
    /\ results' = [results EXCEPT ![i] = Returned(analysis)]
    /\ semaphore' = semaphore_release(semaphore)

\* a failure that cancels every task still running (a task group instead
\* of gather with return_exceptions)
task_raises_cancelling(i) ==
    LET ended(j) == j = i \/ pc[j] \notin {"done", "raised"}
    IN  /\ pc' = [j \in Tasks |-> IF ended(j) THEN "raised" ELSE pc[j]]
        /\ frame' = [j \in Tasks |-> NoFrame]
        /\ results' = [j \in Tasks |-> IF ended(j) THEN Raised ELSE results[j]]
        /\ semaphore' = semaphore + Cardinality(holders)

\* an exception leaves the task through `async with`, which releases
task_raises(i) ==
    /\ pc' = [pc EXCEPT ![i] = "raised"]
    /\ frame' = [frame EXCEPT ![i] = NoFrame]
    /\ results' = [results EXCEPT ![i] = Raised]
    /\ semaphore' = semaphore_release(semaphore)

\* a raw fetch that reported an error is called a second time
RawFetchReturns_retrying(i, r) ==
    /\ pc[i] = "raw_fetch"
    /\ raw_log' = [raw_log EXCEPT ![i] = Append(@, [raised |-> FALSE, ret |-> <<r>>])]
    /\ LET url == validated_urls[i]
           f == after_raw_fetch(url, r.outcome, r.error)
       IN  IF truthy_msg(r.error) /\ raw_log[i] = <<>>
           THEN UNCHANGED <<pc, frame, results, semaphore>>
           ELSE IF r.outcome # <<>>
           THEN /\ pc' = [pc EXCEPT ![i] = "rendered_fetch"]
                /\ frame' = [frame EXCEPT ![i] = f]
                /\ UNCHANGED <<results, semaphore>>
           ELSE task_returns(i, finish_url(url, f, <<>>, <<>>, FALSE))
    /\ UNCHANGED <<urls, max_concurrency, phase, validated_urls, render_log, job, arg, ret>>

\* lines 176-235: raw_fetcher.fetch returned r; either the rendered fetch is
\* started (line 189) or the task runs to its end
RawFetchReturns(i, r) ==
    /\ pc[i] = "raw_fetch"
    /\ raw_log' = [raw_log EXCEPT ![i] = Append(@, [raised |-> FALSE, ret |-> <<r>>])]
    /\ LET url == validated_urls[i]
           f == after_raw_fetch(url, r.outcome, r.error)
       IN  IF r.outcome # <<>>
           THEN /\ pc' = [pc EXCEPT ![i] = "rendered_fetch"]
                /\ frame' = [frame EXCEPT ![i] = f]
                /\ UNCHANGED <<results, semaphore>>
           ELSE task_returns(i, finish_url(url, f, <<>>, <<>>, FALSE))
    /\ UNCHANGED <<urls, max_concurrency, phase, validated_urls, render_log, job, arg, ret>>

\* raw_fetcher.fetch raised
RawFetchRaises(i) ==
    /\ pc[i] = "raw_fetch"
    /\ raw_log' = [raw_log EXCEPT ![i] = Append(@, [raised |-> TRUE, ret |-> <<>>])]
    /\ task_raises(i)
    /\ UNCHANGED <<urls, max_concurrency, phase, validated_urls, render_log, job, arg, ret>>

\* an extractor or differ exception that is not caught and ends the task
RenderedFetchReturns_propagating(i, r, differ_raises) ==
    /\ pc[i] = "rendered_fetch"
    /\ render_log' = [render_log EXCEPT ![i] = Append(@, [raised |-> FALSE, ret |-> <<r>>])]
    /\ LET a == finish_url(validated_urls[i], frame[i], r.outcome,
                           record_error(<<>>, r.error), differ_raises)
       IN  IF a.extraction_errors # <<>> THEN task_raises(i) ELSE task_returns(i, a)
    /\ UNCHANGED <<urls, max_concurrency, phase, validated_urls, raw_log, job, arg, ret>>

\* lines 190-235: js_fetcher.fetch returned r; extraction and comparison run
\* to completion (differ_raises: ContentDiffer.compare raises)
RenderedFetchReturns(i, r, differ_raises) ==
    /\ pc[i] = "rendered_fetch"
    /\ render_log' = [render_log EXCEPT ![i] = Append(@, [raised |-> FALSE, ret |-> <<r>>])]
    /\ task_returns(i, finish_url(validated_urls[i], frame[i], r.outcome,
                                  record_error(<<>>, r.error), differ_raises))
    /\ UNCHANGED <<urls, max_concurrency, phase, validated_urls, raw_log, job, arg, ret>>

\* js_fetcher.fetch raised
RenderedFetchRaises(i) ==
    /\ pc[i] = "rendered_fetch"
    /\ render_log' = [render_log EXCEPT ![i] = Append(@, [raised |-> TRUE, ret |-> <<>>])]
    /\ task_raises(i)
    /\ UNCHANGED <<urls, max_concurrency, phase, validated_urls, raw_log, job, arg, ret>>

\* gather(*tasks, return_exceptions=True) resumes its awaiter once every
\* task has ended
gather_done == \A i \in Tasks : pc[i] \in {"done", "raised"}

\* a loop that skips the tasks that raised
is_value(r) == ~r[1].exception
collect_analyses_drop_failed(res, validated) ==
    LET kept == SelectSeq(res, is_value)
    IN  [k \in DOMAIN kept |-> kept[k][1].value[1]]

\* lines 78-98: the loop over gather's results
collect_analyses(res, validated) ==
    [i \in DOMAIN res |->
        IF res[i][1].exception THEN failed_analysis(validated, i) ELSE res[i][1].value[1]]

\* sum(1 for analysis in analyses if analysis.success)
count_succeeded(analyses) == Cardinality({i \in DOMAIN analyses : success(analyses[i])})

\* lines 75-113: gather returned; the JobResult is built and returned
FinishJob ==
    /\ phase = "gather"
    /\ gather_done
    /\ LET analyses == collect_analyses(results, validated_urls)
           urls_succeeded == count_succeeded(analyses)
       IN  job' = <<[urls_processed |-> Len(validated_urls),
                     urls_succeeded |-> urls_succeeded,
                     urls_failed |-> Len(analyses) - urls_succeeded,
                     results |-> analyses]>>
    /\ phase' = "returned"
    /\ UNCHANGED <<urls, max_concurrency, validated_urls, semaphore, pc, frame,
                   results, raw_log, render_log, arg, ret>>

\* the lists a job is started with: every list that yields at most one
\* task, and the lists made of distinct valid URLs only (one task per line)
JobInputLists ==
    { l \in InputLists :
        Cardinality(validated_set(l)) <= 1 \/ Cardinality(validated_set(l)) = Len(l) }

Init ==
    /\ urls \in JobInputLists
    /\ max_concurrency \in 0..MaxK
    /\ phase = "init"
    /\ validated_urls = <<>>
    /\ semaphore = 0
    /\ pc = <<>>
    /\ frame = <<>>
    /\ results = <<>>
    /\ raw_log = <<>>
    /\ render_log = <<>>
    /\ job = <<>>
    /\ arg = PyNone
    /\ ret = "unset"

Next ==
    \/ StartJob
    \/ \E i \in Tasks : EnterSemaphore(i)
    \/ \E i \in Tasks : \E r \in RawReturns(validated_urls[i]) : RawFetchReturns(i, r)
    \/ \E i \in Tasks : RawFetchRaises(i)
    \/ \E i \in Tasks : \E r \in RenderedReturns(validated_urls[i]) :
          \E differ_raises \in BOOLEAN : RenderedFetchReturns(i, r, differ_raises)
    \/ \E i \in Tasks : RenderedFetchRaises(i)
    \/ FinishJob

Spec == Init /\ [][Next]_vars

\* The event loop runs every task that can run, and (the premise of the
\* termination claim) every collaborator call eventually returns or raises.
Fairness ==
    /\ WF_vars(StartJob)
    /\ WF_vars(FinishJob)
    /\ \A i \in TaskIds :
        /\ WF_vars(i \in Tasks /\ EnterSemaphore(i))
        /\ WF_vars(/\ i \in Tasks
                   /\ \/ \E r \in RawReturns(validated_urls[i]) : RawFetchReturns(i, r)
                      \/ RawFetchRaises(i))
        /\ WF_vars(/\ i \in Tasks
                   /\ \/ \E r \in RenderedReturns(validated_urls[i]) :
                            \E differ_raises \in BOOLEAN : RenderedFetchReturns(i, r, differ_raises)
                      \/ RenderedFetchRaises(i))

\* the inputs termination is examined on: no URL, one URL, two URLs, and a
\* list whose lines are dropped or merged by validation
FairInputLists ==
    { <<>>, <<URL_A>>, <<URL_A, URL_B>>, <<URL_B, <<" ">> \o URL_A \o <<"\t">> >>,
      <<<<" ">>, <<"f", "t", "p", ":", "/", "/", "c">> >> }

InitFair == Init /\ urls \in FairInputLists

FairSpec == InitFair /\ [][Next]_vars /\ Fairness

\* ------------------------------------------------- URLInput on its own
Pads == UNION { [1..n -> Whitespace] : n \in 0..MaxPad }

Schemes ==
    { HTTP, HTTPS, <<"H", "T", "T", "P", ":", "/", "/">>, <<"f", "t", "p", ":", "/", "/">>, <<>> }

URLInputArgs ==
    { PyStr(l \o sch \o body \o r) :
        l \in Pads, sch \in Schemes, body \in {<<>>, <<"a">>}, r \in Pads }
    \cup {PyNone, PyInt(<<"0">>), PyInt(<<"7">>)}

InitURLInput ==
    /\ urls = <<>>
    /\ max_concurrency = 0
    /\ phase = "init"
    /\ validated_urls = <<>>
    /\ semaphore = 0
    /\ pc = <<>>
    /\ frame = <<>>
    /\ results = <<>>
    /\ raw_log = <<>>
    /\ render_log = <<>>
    /\ job = <<>>
    /\ arg \in URLInputArgs
    /\ ret = "unset"

\* URLInput(arg)
ConstructURLInput ==
    /\ ret = "unset"
    /\ ret' = URLInput(arg)
    /\ UNCHANGED <<job_vars, arg>>

SpecURLInput == InitURLInput /\ [][ConstructURLInput]_vars

\* --------------------------------------------------- models.py, differ.py
\* set(l)
ToSet(l) == {l[i] : i \in DOMAIN l}

\* str.split(): the maximal runs of non-whitespace characters
RECURSIVE split(_)
split(s) ==
    LET t == lstrip(s)
    IN  IF t = <<>> THEN <<>>
        ELSE LET stops == {i \in 1..Len(t) : t[i] \in Whitespace}
                 n == IF stops = {} THEN Len(t) + 1
                      ELSE CHOOSE i \in stops : \A j \in stops : i <= j
             IN  <<SubSeq(t, 1, n - 1)>> \o split(SubSeq(t, n, Len(t)))

\* sep.join(l)
RECURSIVE join(_, _)
join(sep, l) ==
    IF l = <<>> THEN <<>>
    ELSE IF Len(l) = 1 THEN l[1]
    ELSE l[1] \o sep \o join(sep, Tail(l))

\* round(num / den * 100, 2) of Python for den > 0, in hundredths (50.0 is
\* 5000): the nearest hundredth, a tie going to the even one
round_percent(num, den) ==
    LET n == num * 10000
        q == n \div den
        r == n - q * den
    IN  IF 2 * r < den THEN q
        ELSE IF 2 * r > den THEN q + 1
        ELSE IF q % 2 = 0 THEN q ELSE q + 1

ExtractedContent(visible_text, headings, internal_links) ==
    [visible_text |-> visible_text, headings |-> headings, internal_links |-> internal_links]

\* a count of the distinct words only
word_count_distinct(content) == Cardinality(ToSet(split(content.visible_text)))

\* ExtractedContent.word_count
word_count(content) == Len(split(content.visible_text))

\* ExtractedContent.heading_count
heading_count(content) == Len(content.headings)

\* ExtractedContent.internal_link_count
internal_link_count(content) == Len(content.internal_links)

\* DifferenceReport.word_count_delta
word_count_delta(d) == d.rendered_word_count - d.raw_word_count

\* DifferenceReport.word_count_percentage_change, in hundredths
word_count_percentage_change(d) ==
    IF d.raw_word_count = 0 THEN 0
    ELSE round_percent(word_count_delta(d), d.raw_word_count)

\* the share without the clamp for a raw text that is the longer one
content_invisible_unclamped(d) ==
    IF d.rendered_word_count = 0 THEN 0
    ELSE round_percent(d.rendered_word_count - d.raw_word_count, d.rendered_word_count)

\* DifferenceReport.content_invisible_without_js_percentage, in hundredths
content_invisible_without_js_percentage(d) ==
    IF d.rendered_word_count = 0 THEN 0
    ELSE IF d.raw_word_count >= d.rendered_word_count THEN 0
    ELSE round_percent(d.rendered_word_count - d.raw_word_count, d.rendered_word_count)

\* the raw words collected without lower-casing them
raw_words_case_sensitive(raw_text) == ToSet(split(raw_text))

\* differ.py line 84: set(raw_text.lower().split())
raw_words(raw_text) == ToSet(split(lower(raw_text)))

\* the rendered words collected without lower-casing them
rendered_words_case_sensitive(rendered_text) == ToSet(split(rendered_text))

\* differ.py line 85: set(rendered_text.lower().split())
rendered_words(rendered_text) == ToSet(split(lower(rendered_text)))

\* lines 126-128: a word that is not unique ends the running block
end_block(blocks, current_block, unique_count) ==
    IF unique_count >= 3 THEN Append(blocks, join(<<" ">>, current_block)) ELSE blocks

\* a last block that is kept whatever its length
last_block_any_length(blocks, current_block, unique_count) ==
    IF unique_count >= 1 THEN Append(blocks, join(<<" ">>, current_block)) ELSE blocks

\* lines 132-134: the block still running when the text ends
last_block(blocks, current_block, unique_count) ==
    IF unique_count >= 3 THEN Append(blocks, join(<<" ">>, current_block)) ELSE blocks

\* lines 121-134: the loop over the words, and what follows it
RECURSIVE group_loop(_, _, _, _, _)
group_loop(words, unique_words, blocks, current_block, unique_count) ==
    IF words = <<>> THEN last_block(blocks, current_block, unique_count)
    ELSE LET word == Head(words)
             word_lower == lower(word)
         IN  IF word_lower \in unique_words
             THEN group_loop(Tail(words), unique_words, blocks,
                             Append(current_block, word), unique_count + 1)
             ELSE group_loop(Tail(words), unique_words,
                             end_block(blocks, current_block, unique_count), <<>>, 0)

\* ContentDiffer._group_words_into_blocks
group_words_into_blocks(text, unique_words) ==
    IF unique_words = {} THEN <<>>
    ELSE group_loop(split(text), unique_words, <<>>, <<>>, 0)

\* ContentDiffer._compare_text: <<text_only_with_js, text_only_without_js>>
compare_text(raw_text, rendered_text) ==
    LET words_only_with_js == rendered_words(rendered_text) \ raw_words(raw_text)
        words_only_without_js == raw_words(raw_text) \ rendered_words(rendered_text)
    IN  <<group_words_into_blocks(rendered_text, words_only_with_js),
          group_words_into_blocks(raw_text, words_only_without_js)>>

\* sorted(list(S), key=lambda x: l.index(x)) for a set S of elements of l:
\* the elements of S by their first position in l
RECURSIVE sorted_by_index(_, _)
sorted_by_index(S, l) ==
    IF l = <<>> THEN <<>>
    ELSE IF Head(l) \in S THEN <<Head(l)>> \o sorted_by_index(S \ {Head(l)}, Tail(l))
    ELSE sorted_by_index(S, Tail(l))

\* a comparison that keeps every occurrence of a heading the other side lacks
compare_headings_with_repeats(raw_headings, rendered_headings) ==
    LET raw_set == ToSet(raw_headings)
        rendered_set == ToSet(rendered_headings)
        not_in_raw(h) == h \notin raw_set
        not_in_rendered(h) == h \notin rendered_set
    IN  <<SelectSeq(rendered_headings, not_in_raw),
          SelectSeq(raw_headings, not_in_rendered)>>

\* ContentDiffer._compare_headings:
\* <<headings_missing_without_js, headings_extra_without_js>>
compare_headings(raw_headings, rendered_headings) ==
    LET raw_set == ToSet(raw_headings)
        rendered_set == ToSet(rendered_headings)
    IN  <<sorted_by_index(rendered_set \ raw_set, rendered_headings),
          sorted_by_index(raw_set \ rendered_set, raw_headings)>>

\* ContentDiffer._compare_internal_links: the lists are comprehensions over
\* sets of (href, anchor_text) tuples, so each comes out in any order
compare_internal_links(raw_links, rendered_links) ==
    LET raw_set == ToSet(raw_links)
        rendered_set == ToSet(rendered_links)
    IN  list_of_set(rendered_set \ raw_set) \X list_of_set(raw_set \ rendered_set)

\* ContentDiffer.compare: the reports it can return
ContentDiffer_compare(raw, rendered) ==
    LET text == compare_text(raw.visible_text, rendered.visible_text)
        headings == compare_headings(raw.headings, rendered.headings)
    IN  { [text_only_with_js |-> text[1],
           text_only_without_js |-> text[2],
           headings_missing_without_js |-> headings[1],
           headings_extra_without_js |-> headings[2],
           internal_links_missing_without_js |-> links[1],
           internal_links_extra_without_js |-> links[2],
           raw_word_count |-> word_count(raw),
           rendered_word_count |-> word_count(rendered),
           raw_heading_count |-> heading_count(raw),
           rendered_heading_count |-> heading_count(rendered),
           raw_internal_link_count |-> internal_link_count(raw),
           rendered_internal_link_count |-> internal_link_count(rendered)] :
          links \in compare_internal_links(raw.internal_links, rendered.internal_links) }

\* ------------------------------------------------ ContentDiffer on its own
\* the words texts are made of: a word, the same word in upper case, another
Words == {<<"a">>, <<"A">>, <<"b">>}

\* the texts ContentExtractor produces (words joined by single spaces) ...
NormalizedTexts == { join(<<" ">>, ws) : ws \in UNION { [1..n -> Words] : n \in 0..MaxWords } }

\* ... the two texts of the worked example, a text with two separate blocks
\* next to a raw text holding the word between them and a word of its own,
\* and a text whose whitespace is not normalized
ExampleRaw == <<"a", " ", "b", " ", "c">>
ExampleRendered == <<"a", " ", "b", " ", "c", " ", "d", " ", "e", " ", "f">>
TwoBlocks == <<"a", " ", "b", " ", "A", " ", "c", " ", "B", " ", "b", " ", "a">>
Unnormalized == <<" ", "a", " ", "\t", "B", " ", " ", "a", "\t">>
BetweenBlocks == <<"c", " ", "d">>
ExampleTexts == {ExampleRaw, ExampleRendered, TwoBlocks, BetweenBlocks, Unnormalized}

\* a text with a block of its own next to a word of the worked example
OwnBlock == <<"x", " ", "y", " ", "z", " ", "c">>

DifferTexts == NormalizedTexts \cup ExampleTexts \cup {OwnBlock}

HeadingLists == UNION { [1..n -> {<<"A">>, <<"a">>}] : n \in 0..MaxItems }

\* heading lists in which a heading comes back after another one
RepeatedHeadingLists == {<<<<"B">>, <<"A">>, <<"B">>>>, <<<<"a">>, <<"B">>, <<"a">>, <<"A">>>>}

LinkLists ==
    UNION { [1..n -> { [href |-> <<"/", "a">>, anchor_text |-> <<"A">>],
                       [href |-> <<"/", "a">>, anchor_text |-> <<"B">>] }] :
            n \in 0..MaxItems }

\* compare handles the text, the headings and the links apart from each
\* other, so the pairs vary one of the three; each example text is also
\* compared with itself under every heading and link list
DifferInputs ==
    { [raw |-> ExtractedContent(t1, <<>>, <<>>),
       rendered |-> ExtractedContent(t2, <<>>, <<>>)] : t1, t2 \in DifferTexts }
    \cup { [raw |-> ExtractedContent(<<>>, h1, <<>>),
            rendered |-> ExtractedContent(<<>>, h2, <<>>)] :
            h1, h2 \in HeadingLists \cup RepeatedHeadingLists }
    \cup { [raw |-> ExtractedContent(<<>>, <<>>, l1),
            rendered |-> ExtractedContent(<<>>, <<>>, l2)] : l1, l2 \in LinkLists }
    \cup { [raw |-> ExtractedContent(t, h, l), rendered |-> ExtractedContent(t, h, l)] :
           t \in ExampleTexts, h \in HeadingLists, l \in LinkLists }

InitDiffer ==
    /\ urls = <<>>
    /\ max_concurrency = 0
    /\ phase = "init"
    /\ validated_urls = <<>>
    /\ semaphore = 0
    /\ pc = <<>>
    /\ frame = <<>>
    /\ results = <<>>
    /\ raw_log = <<>>
    /\ render_log = <<>>
    /\ job = <<>>
    /\ arg \in DifferInputs
    /\ ret = <<>>

\* ContentDiffer().compare(arg.raw, arg.rendered)
Compare ==
    /\ ret = <<>>
    /\ \E d \in ContentDiffer_compare(arg.raw, arg.rendered) : ret' = <<d>>
    /\ UNCHANGED <<job_vars, arg>>

SpecDiffer == InitDiffer /\ [][Compare]_vars

\* ------------------------------------------------------------ extractor.py
\* `sub in s`
contains(s, sub) ==
    \E i \in 1..(Len(s) - Len(sub) + 1) : SubSeq(s, i, i + Len(sub) - 1) = sub

\* An HTML document after parsing: its elements in document order.  Each has
\* its tag, the index of its parent element (0: the body), its attributes
\* ("" when absent; href <<>> when absent, <<value>> when present) and the
\* text node it starts with.
Element(tag, parent, text) ==
    [tag |-> tag, parent |-> parent, id |-> <<>>, class |-> <<>>, role |-> <<>>,
     style |-> <<>>, aria_hidden |-> <<>>, href |-> <<>>, text |-> text]

\* the element and its ancestors
RECURSIVE parents(_, _)
parents(doc, i) == IF i = 0 THEN {} ELSE {i} \cup parents(doc, doc[i].parent)

\* the element and everything under it
descendants(doc, i) == {j \in DOMAIN doc : i \in parents(doc, j)}

\* document order puts an element right after its parent, or after the
\* subtree of an earlier child of one of its ancestors
well_formed(doc) ==
    \A i \in DOMAIN doc :
        doc[i].parent = 0 \/ (i > 1 /\ doc[i].parent \in parents(doc, i - 1))

IGNORED_TAGS ==
    { "script", "style", "noscript", "iframe", "svg", "path", "circle", "rect",
      "polygon", "line", "ellipse", "defs", "use", "g", "symbol", "marker",
      "pattern", "filter", "mask", "clippath", "textpath" }

HEADING_TAGS == <<"h1", "h2", "h3", "h4", "h5", "h6">>

\* [id*='cookie'], [class*='cookie'], ... , [role='dialog'][id*='cookie']
COOKIE_BANNER_SELECTORS ==
    << [attr |-> "id", value |-> <<"c", "o", "o", "k", "i", "e">>, role |-> <<>>],
       [attr |-> "class", value |-> <<"c", "o", "o", "k", "i", "e">>, role |-> <<>>],
       [attr |-> "id", value |-> <<"c", "o", "n", "s", "e", "n", "t">>, role |-> <<>>],
       [attr |-> "class", value |-> <<"c", "o", "n", "s", "e", "n", "t">>, role |-> <<>>],
       [attr |-> "id", value |-> <<"g", "d", "p", "r">>, role |-> <<>>],
       [attr |-> "class", value |-> <<"g", "d", "p", "r">>, role |-> <<>>],
       [attr |-> "id", value |-> <<"c", "o", "o", "k", "i", "e">>, role |-> <<"d", "i", "a", "l", "o", "g">>] >>

\* the words that make a selected element a cookie banner
BANNER_WORDS ==
    { <<"c", "o", "o", "k", "i", "e">>, <<"c", "o", "n", "s", "e", "n", "t">>, <<"p", "r", "i", "v", "a", "c", "y">>,
      <<"a", "c", "c", "e", "p", "t">>, <<"r", "e", "j", "e", "c", "t">> }

\* " ".join(element.get("class", []))
class_attr(element) == join(<<" ">>, element.class)

\* soup.select(selector) selects the element
selects(selector, element) ==
    /\ contains(IF selector.attr = "id" THEN element.id ELSE class_attr(element),
                selector.value)
    /\ selector.role = <<>> \/ element.role = selector.role

\* element.get_text(), or get_text(strip=True) with `stripped`: the strings
\* under element i that are still in the tree, one after the other
RECURSIVE text_from(_, _, _, _, _)
text_from(doc, gone, i, j, stripped) ==
    IF j > Len(doc) THEN <<>>
    ELSE (IF j \in descendants(doc, i) \ gone
          THEN (IF stripped THEN strip(doc[j].text) ELSE doc[j].text)
          ELSE <<>>)
         \o text_from(doc, gone, i, j + 1, stripped)

get_text(doc, gone, i, stripped) == text_from(doc, gone, i, i, stripped)

\* lines 117-126, for one selector: the selected elements whose text holds a
\* banner word are decomposed, in document order
RECURSIVE remove_selected(_, _, _, _)
remove_selected(doc, gone, selector, i) ==
    IF i > Len(doc) THEN gone
    ELSE LET element_text == lower(get_text(doc, gone, i, FALSE))
             banner == /\ i \notin gone
                       /\ selects(selector, doc[i])
                       /\ \E word \in BANNER_WORDS : contains(element_text, word)
         IN  remove_selected(doc, IF banner THEN gone \cup descendants(doc, i) ELSE gone,
                             selector, i + 1)

RECURSIVE remove_banners(_, _, _)
remove_banners(doc, gone, s) ==
    IF s > Len(COOKIE_BANNER_SELECTORS) THEN gone
    ELSE remove_banners(doc, remove_selected(doc, gone, COOKIE_BANNER_SELECTORS[s], 1), s + 1)

\* ContentExtractor._remove_ignored_elements: the elements taken out of the
\* tree (the documents hold no comments)
remove_ignored_elements(doc) ==
    remove_banners(doc, UNION {descendants(doc, i) : i \in {j \in DOMAIN doc : doc[j].tag \in IGNORED_TAGS}}, 1)

DISPLAY_NONE == <<"d", "i", "s", "p", "l", "a", "y", ":", "n", "o", "n", "e">>
VISIBILITY_HIDDEN ==
    <<"v", "i", "s", "i", "b", "i", "l", "i", "t", "y", ":", "h", "i", "d", "d", "e", "n">>
HIDDEN == <<"h", "i", "d", "d", "e", "n">>

\* ContentExtractor._is_element_visible
RECURSIVE is_element_visible(_, _)
is_element_visible(doc, i) ==
    IF i = 0 THEN TRUE
    ELSE LET style == lower(doc[i].style)
             class_lower == lower(class_attr(doc[i]))
             aria_hidden == lower(doc[i].aria_hidden)
         IN  IF \/ contains(style, DISPLAY_NONE)
                \/ contains(style, VISIBILITY_HIDDEN)
                \/ contains(class_lower, HIDDEN)
                \/ aria_hidden = <<"t", "r", "u", "e">>
             THEN FALSE
             ELSE is_element_visible(doc, doc[i].parent)

\* the strings of the tree whose parent element is visible, lines 139-143
RECURSIVE text_parts(_, _, _)
text_parts(doc, gone, j) ==
    IF j > Len(doc) THEN <<>>
    ELSE (IF j \notin gone /\ doc[j].text # <<>> /\ is_element_visible(doc, j)
          THEN <<doc[j].text>> ELSE <<>>)
         \o text_parts(doc, gone, j + 1)

\* ContentExtractor._normalize_whitespace, then strip(): every run of
\* whitespace becomes one space and the ends are trimmed
normalize_whitespace(text) == join(<<" ">>, split(text))

\* ContentExtractor._extract_visible_text
extract_visible_text(doc, gone) ==
    normalize_whitespace(join(<<" ">>, text_parts(doc, gone, 1)))

\* lines 215-218 for one heading tag: soup.find_all(heading_tag), from j on
RECURSIVE headings_of_tag(_, _, _, _)
headings_of_tag(doc, gone, heading_tag, j) ==
    IF j > Len(doc) THEN <<>>
    ELSE LET text == get_text(doc, gone, j, TRUE)
         IN  (IF j \notin gone /\ doc[j].tag = heading_tag /\ text # <<>>
              THEN <<text>> ELSE <<>>)
             \o headings_of_tag(doc, gone, heading_tag, j + 1)

\* lines 214-218: `for heading_tag in self.HEADING_TAGS`, from the t-th tag on
RECURSIVE headings_from(_, _, _)
headings_from(doc, gone, t) ==
    IF t > Len(HEADING_TAGS) THEN <<>>
    ELSE headings_of_tag(doc, gone, HEADING_TAGS[t], 1) \o headings_from(doc, gone, t + 1)

\* ContentExtractor._extract_headings
extract_headings(doc, gone) == headings_from(doc, gone, 1)

\* urlparse: what follows "http:" or "https:"
after_scheme(url) ==
    IF startswith(url, <<"h", "t", "t", "p", ":">>) THEN SubSeq(url, 6, Len(url))
    ELSE IF startswith(url, <<"h", "t", "t", "p", "s", ":">>) THEN SubSeq(url, 7, Len(url))
    ELSE url

\* urlparse(url).netloc: what follows "//", up to the path, query or fragment
netloc(url) ==
    LET rest == after_scheme(url)
        host == SubSeq(rest, 3, Len(rest))
        stops == {i \in DOMAIN host : host[i] \in {"/", "?", "#"}}
        n == IF stops = {} THEN Len(host) + 1 ELSE CHOOSE i \in stops : \A j \in stops : i <= j
    IN  IF startswith(rest, <<"/", "/">>) THEN SubSeq(host, 1, n - 1) ELSE <<>>

\* the url names its own scheme ("javascript:v", "http://e.c")
has_scheme(url) ==
    \E i \in 2..Len(url) :
        url[i] = ":" /\ \A j \in 1..(i - 1) : url[j] \notin {"/", "?", "#", ":", ".", " ", "\t"}

\* urljoin(base, url) for a base that is a site's root (scheme and host)
urljoin(base, url) ==
    LET scheme == SubSeq(base, 1, Len(base) - Len(after_scheme(base)))
    IN  IF has_scheme(url) THEN url
        ELSE IF startswith(url, <<"/", "/">>) THEN scheme \o url
        ELSE IF startswith(url, <<"/">>) THEN scheme \o <<"/", "/">> \o netloc(base) \o url
        ELSE scheme \o <<"/", "/">> \o netloc(base) \o <<"/">> \o url

\* str.replace(old, new): every occurrence, left to right
RECURSIVE replace(_, _, _)
replace(s, old, new) ==
    IF Len(s) < Len(old) \/ old = <<>> THEN s
    ELSE IF startswith(s, old) THEN new \o replace(SubSeq(s, Len(old) + 1, Len(s)), old, new)
    ELSE <<Head(s)>> \o replace(Tail(s), old, new)

WWW == <<"w", "w", "w", ".">>

\* `if self.base_url` of a str | None
has_base(base_url) == base_url # <<>> /\ base_url[1] # <<>>

\* ContentExtractor._is_internal_link
is_internal_link(href, base_url) ==
    IF ~has_base(base_url) THEN TRUE
    ELSE LET base_domain == replace(netloc(base_url[1]), WWW, <<>>)
             link_domain == replace(netloc(href), WWW, <<>>)
         IN  base_domain = link_domain

\* the prefixes skipped, without "tel:"
SKIPPED_PREFIXES_without_tel ==
    { <<"j", "a", "v", "a", "s", "c", "r", "i", "p", "t", ":">>,
      <<"m", "a", "i", "l", "t", "o", ":">>, <<"#">> }

\* href.startswith(("javascript:", "mailto:", "tel:", "#"))
SKIPPED_PREFIXES ==
    { <<"j", "a", "v", "a", "s", "c", "r", "i", "p", "t", ":">>,
      <<"m", "a", "i", "l", "t", "o", ":">>, <<"t", "e", "l", ":">>, <<"#">> }

\* line 247: the href the link is recorded with
resolved_href(href, base_url) == IF has_base(base_url) THEN urljoin(base_url[1], href) ELSE href

\* lines 234-252 for the element j: its link is appended
link_kept(doc, gone, base_url, j) ==
    /\ j \notin gone
    /\ doc[j].tag = "a"
    /\ doc[j].href # <<>>
    /\ LET href == strip(doc[j].href[1])
           anchor_text == get_text(doc, gone, j, TRUE)
       IN  /\ href # <<>> /\ anchor_text # <<>>
           /\ ~\E prefix \in SKIPPED_PREFIXES : startswith(href, prefix)
           /\ is_internal_link(resolved_href(href, base_url), base_url)

\* the elements whose link is appended, in the order of the loop
RECURSIVE link_sources(_, _, _, _)
link_sources(doc, gone, base_url, j) ==
    IF j > Len(doc) THEN <<>>
    ELSE (IF link_kept(doc, gone, base_url, j) THEN <<j>> ELSE <<>>)
         \o link_sources(doc, gone, base_url, j + 1)

\* ContentExtractor._extract_internal_links
extract_internal_links(doc, gone, base_url) ==
    LET sources == link_sources(doc, gone, base_url, 1)
    IN  [k \in DOMAIN sources |->
            [href |-> resolved_href(strip(doc[sources[k]].href[1]), base_url),
             anchor_text |-> get_text(doc, gone, sources[k], TRUE)]]

\* ContentExtractor(base_url).extract(html), html given as the parsed tree
ContentExtractor_extract(html, base_url) ==
    LET gone == remove_ignored_elements(html)
    IN  ExtractedContent(extract_visible_text(html, gone),
                         extract_headings(html, gone),
                         extract_internal_links(html, gone, base_url))

\* ---------------------------------------------- ContentExtractor on its own
\* the text of the i-th element of a generated document: "w1", "w2", ...
marker(i) == <<"w", <<"1", "2", "3", "4", "5">>[i]>>

\* the documents of at most MaxNodes elements whose i-th element is one of
\* nodes[i]
Docs(nodes) ==
    UNION { { d \in [1..n -> UNION {nodes[i] : i \in 1..n}] :
                (\A i \in 1..n : d[i] \in nodes[i]) /\ well_formed(d) } :
            n \in 0..MaxNodes }

\* headings of several levels and paragraphs, some of them blank
heading_nodes(i) == { Element(t, 0, x) : t \in {"h1", "h2", "p"}, x \in {marker(i), <<" ">>} }

\* the document of test_heading_order_preserved
TestHeadingOrder ==
    << Element("h3", 0, <<"T", "h", "i", "r", "d">>),
       Element("h1", 0, <<"F", "i", "r", "s", "t">>),
       Element("h2", 0, <<"S", "e", "c", "o", "n", "d">>) >>

HeadingDocs == Docs([i \in 1..MaxNodes |-> heading_nodes(i)]) \cup {TestHeadingOrder}

\* the ways an element is marked hidden, or not
hiding_variants(e) ==
    { e,
      [e EXCEPT !.style = DISPLAY_NONE],
      [e EXCEPT !.style = <<"d", "i", "s", "p", "l", "a", "y", ":", " ", "n", "o", "n", "e", ";">>],
      [e EXCEPT !.style = VISIBILITY_HIDDEN],
      [e EXCEPT !.style = <<"v", "i", "s", "i", "b", "i", "l", "i", "t", "y", ":", " ", "h", "i", "d", "d", "e", "n", ";">>],
      [e EXCEPT !.style = <<"D", "I", "S", "P", "L", "A", "Y", ":", "N", "O", "N", "E">>],
      [e EXCEPT !.aria_hidden = <<"t", "r", "u", "e">>],
      [e EXCEPT !.aria_hidden = <<"T", "r", "u", "e">>],
      [e EXCEPT !.aria_hidden = <<"f", "a", "l", "s", "e">>],
      [e EXCEPT !.class = <<HIDDEN>>],
      [e EXCEPT !.class = <<<<"o", "v", "e", "r", "f", "l", "o", "w", "-", "h", "i", "d", "d", "e", "n">>>>],
      [e EXCEPT !.class = <<<<"c", "a", "r", "d">>, <<"h", "i", "d", "d", "e", "n", "-", "x", "s">>>>] }

\* nested blocks, each with a text of its own
block_nodes(i) == UNION { hiding_variants(Element("div", p, marker(i))) : p \in 0..(i - 1) }

VisibilityDocs == Docs([i \in 1..MaxNodes |-> block_nodes(i)])

Hrefs ==
    { <<>>, <<" ">>, <<"j", "a", "v", "a", "s", "c", "r", "i", "p", "t", ":", "v">>,
      <<"m", "a", "i", "l", "t", "o", ":", "m">>, <<"t", "e", "l", ":", "1">>, <<"#", "f">>, <<"/", "p">>,
      <<" ", "/", "p", " ">>, <<"J", "A", "V", "A", "S", "C", "R", "I", "P", "T", ":", "v">>,
      <<"h", "t", "t", "p", ":", "/", "/", "o", ".", "c", "/", "p">> }

Anchor(parent, href, text) == [Element("a", parent, text) EXCEPT !.href = <<href>>]

\* anchors with every href and a text, with a blank text, or without href
anchor_nodes(i) ==
    { Anchor(0, h, <<"w">>) : h \in Hrefs }
    \cup { Anchor(0, <<"/", "p">>, x) : x \in {<<>>, <<" ">>} }
    \cup { Element("a", 0, <<"w">>) }

LinkDocs == Docs([i \in 1..MaxNodes |-> anchor_nodes(i)])

LinkBases == {<<>>, <<<<"h", "t", "t", "p", ":", "/", "/", "e", ".", "c">>>>}

Hosts ==
    { <<"e", ".", "c">>, <<"w", "w", "w", ".", "e", ".", "c">>, <<"s", ".", "e", ".", "c">>,
      <<"w", "w", "w", ".", "w", "w", "w", ".", "e", ".", "c">>,
      <<"s", ".", "w", "w", "w", ".", "e", ".", "c">>, <<"o", ".", "c">> }

\* one link to each host, seen from each host (or from none)
HostDocs == { <<Anchor(0, HTTP \o h \o <<"/", "p">>, <<"w">>)>> : h \in Hosts }

HostBases == {<<>>, <<<<>>>>} \cup { <<HTTP \o h>> : h \in Hosts }

\* the document and the base URL of test_ignore_external_links
TestIgnoreExternalLinks ==
    << Anchor(0, <<"/", "i", "n", "t", "e", "r", "n", "a", "l">>, <<"I", "n", "t", "e", "r", "n", "a", "l", " ", "L", "i", "n", "k">>),
       Anchor(0, <<"h", "t", "t", "p", "s", ":", "/", "/", "o", "t", "h", "e", "r", ".", "c", "o", "m">>, <<"E", "x", "t", "e", "r", "n", "a", "l", " ", "L", "i", "n", "k">>),
       Anchor(0, <<"h", "t", "t", "p", "s", ":", "/", "/", "s", "u", "b", ".", "e", "x", "a", "m", "p", "l", "e", ".", "c", "o", "m", "/", "p", "a", "g", "e">>, <<"S", "u", "b", "d", "o", "m", "a", "i", "n", " ", "L", "i", "n", "k">>) >>
TestBase == <<HTTPS \o <<"e", "x", "a", "m", "p", "l", "e", ".", "c", "o", "m">>>>

\* documents with ignored elements, with cookie banners and with an anchor
\* whose text is in a child element
OtherDocs ==
    { << Element("div", 0, marker(1)), Element("script", 1, marker(2)),
         Element("p", 0, marker(3)) >>,
      << Element("svg", 0, <<>>), Element("h1", 1, marker(2)),
         Anchor(1, <<"/", "p">>, marker(3)) >>,
      << [Element("div", 0, <<"W", "e", " ", "u", "s", "e", " ", "C", "o", "o", "k", "i", "e", "s">>) EXCEPT !.id = <<"c", "o", "o", "k", "i", "e", "-", "b", "a", "r">>],
         Element("h2", 1, marker(2)), Anchor(1, <<"/", "p">>, <<"A", "c", "c", "e", "p", "t">>) >>,
      << [Element("div", 0, marker(1)) EXCEPT !.class = <<<<"g", "d", "p", "r">>, <<"b", "o", "x">>>>],
         Anchor(1, <<"/", "p">>, <<"R", "e", "j", "e", "c", "t">>), Element("h1", 0, marker(3)) >>,
      << [Element("div", 0, marker(1)) EXCEPT !.id = <<"c", "o", "n", "s", "e", "n", "t">>],
         Element("h1", 1, marker(2)) >>,
      << Anchor(0, <<"/", "p">>, <<>>), Element("span", 1, marker(2)) >> }

ExtractorInputs ==
    { [html |-> d, base_url |-> <<>>] : d \in HeadingDocs \cup VisibilityDocs }
    \cup { [html |-> d, base_url |-> b] : d \in LinkDocs \cup OtherDocs, b \in LinkBases }
    \cup { [html |-> d, base_url |-> b] : d \in HostDocs, b \in HostBases }
    \cup { [html |-> TestIgnoreExternalLinks, base_url |-> TestBase] }

InitExtractor ==
    /\ urls = <<>>
    /\ max_concurrency = 0
    /\ phase = "init"
    /\ validated_urls = <<>>
    /\ semaphore = 0
    /\ pc = <<>>
    /\ frame = <<>>
    /\ results = <<>>
    /\ raw_log = <<>>
    /\ render_log = <<>>
    /\ job = <<>>
    /\ arg \in ExtractorInputs
    /\ ret = <<>>

\* ContentExtractor(arg.base_url).extract(arg.html)
Extract ==
    /\ ret = <<>>
    /\ ret' = <<ContentExtractor_extract(arg.html, arg.base_url)>>
    /\ UNCHANGED <<job_vars, arg>>

SpecExtractor == InitExtractor /\ [][Extract]_vars

\* --------------------------------------------------------------- fetcher.py
\* What a block of code did: it returned the pair (outcome, error) or it
\* raised.  Exceptions are named by their class; the event loop cancels no
\* task (job_runner.py line 75), so none of them is a BaseException.
Return(outcome, error) == [raised |-> FALSE, exc |-> "", outcome |-> outcome, error |-> error]
Raise(exc) == [raised |-> TRUE, exc |-> exc, outcome |-> <<>>, error |-> <<>>]

\* isinstance(exc, cls) for the classes named in the except clauses
is_instance(exc, cls) ==
    CASE cls = "Exception" -> TRUE
      [] cls = "HTTPError" -> exc \in {"TimeoutException", "ConnectError"}
      [] OTHER -> exc = cls

\* try: body / except cls: [await browser.close()]; return None, message
\* The first clause whose class matches handles the exception; a close()
\* that raises inside the clause leaves the try statement with its exception.
RECURSIVE try_except(_, _, _, _)
try_except(body, handlers, h, close) ==
    IF ~body.raised \/ h > Len(handlers) THEN body
    ELSE IF is_instance(body.exc, handlers[h].class)
         THEN IF handlers[h].closes /\ close # "ok" THEN Raise(close)
              ELSE Return(<<>>, <<handlers[h].message>>)
         ELSE try_except(body, handlers, h + 1, close)

\* RawFetchResult.success
RawFetchResult_success(r) == 200 <= r.status_code /\ r.status_code < 300

\* the except clauses of RawHTMLFetcher.fetch without its last one
RAW_HANDLERS_without_catch_all ==
    << [class |-> "TimeoutException", message |-> "Timeout after", closes |-> FALSE],
       [class |-> "HTTPError", message |-> "HTTP error", closes |-> FALSE] >>

\* lines 122-127
RAW_HANDLERS ==
    << [class |-> "TimeoutException", message |-> "Timeout after", closes |-> FALSE],
       [class |-> "HTTPError", message |-> "HTTP error", closes |-> FALSE],
       [class |-> "Exception", message |-> "Unexpected error", closes |-> FALSE] >>

\* RawHTMLFetcher.fetch(url); env.get is what client.get(url) does: "ok"
\* (a response with env.status_code) or the exception it raises
RawHTMLFetcher_fetch(url, env) ==
    LET body == IF env.get = "ok"
                THEN Return(<<[url |-> redirected(url), original_url |-> url,
                               status_code |-> env.status_code, html |-> "page"]>>, <<>>)
                ELSE Raise(env.get)
    IN  try_except(body, RAW_HANDLERS, 1, "ok")

\* JSRenderedFetcher._wait_for_content; env.wait is what
\* page.wait_for_load_state does.  Returns "ok" or the exception raised.  A
\* strategy that is none of the three calls itself without end.
wait_for_content(wait_strategy, env) ==
    CASE wait_strategy = "network_idle" ->
            IF env.wait = "PlaywrightTimeoutError" THEN "ok" ELSE env.wait
      [] wait_strategy = "load" -> env.wait
      [] wait_strategy = "timeout" -> "ok"
      [] OTHER -> "RecursionError"

\* lines 215-220
RENDER_HANDLERS ==
    << [class |-> "PlaywrightTimeoutError", message |-> "Render timeout after", closes |-> TRUE],
       [class |-> "Exception", message |-> "Render error", closes |-> TRUE] >>

\* lines 222-223
BROWSER_HANDLERS ==
    << [class |-> "Exception", message |-> "Browser initialization error", closes |-> FALSE] >>

\* lines 184-213, the body of the inner try
render_body(url, wait_strategy, env) ==
    IF env.goto \notin {"response", "none"} THEN Raise(env.goto)
    ELSE IF env.goto = "none"
         THEN IF env.close # "ok" THEN Raise(env.close)
              ELSE Return(<<>>, <<"No response received">>)
    ELSE IF wait_for_content(wait_strategy, env) # "ok"
         THEN Raise(wait_for_content(wait_strategy, env))
    ELSE IF env.content # "ok" THEN Raise(env.content)
    ELSE IF env.close # "ok" THEN Raise(env.close)
    ELSE Return(<<[url |-> redirected(url), original_url |-> url,
                   html |-> "page", success |-> TRUE]>>, <<>>)

\* JSRenderedFetcher.fetch(url); env.launch, env.new_page, env.goto,
\* env.content and env.close are what the browser calls do
JSRenderedFetcher_fetch(url, wait_strategy, env) ==
    LET body == IF env.launch # "ok" THEN Raise(env.launch)
                ELSE IF env.new_page # "ok" THEN Raise(env.new_page)
                ELSE try_except(render_body(url, wait_strategy, env),
                                RENDER_HANDLERS, 1, env.close)
    IN  try_except(body, BROWSER_HANDLERS, 1, "ok")

\* ------------------------------------------------- the fetchers on their own
StatusCodes == {200, 204, 301, 404, 500}

WaitStrategies == {"network_idle", "load", "timeout", "idle"}

Quiet ==
    [get |-> "ok", status_code |-> 200, launch |-> "ok", new_page |-> "ok",
     goto |-> "response", wait |-> "ok", content |-> "ok", close |-> "ok"]

\* what the HTTP client can do
RawEnvs ==
    { [Quiet EXCEPT !.status_code = s] : s \in StatusCodes }
    \cup { [Quiet EXCEPT !.get = e] :
             e \in {"TimeoutException", "ConnectError", "UnicodeDecodeError"} }

\* what the browser can do
RenderEnvs ==
    { [Quiet EXCEPT !.launch = l, !.new_page = n, !.goto = g, !.wait = w,
                    !.content = c, !.close = x] :
        l \in {"ok", "PlaywrightError"}, n \in {"ok", "PlaywrightError"},
        g \in {"response", "none", "PlaywrightTimeoutError", "PlaywrightError"},
        w \in {"ok", "PlaywrightTimeoutError", "PlaywrightError"},
        c \in {"ok", "PlaywrightError"}, x \in {"ok", "PlaywrightError"} }

FetchCalls ==
    { [fetcher |-> "raw", wait_strategy |-> "network_idle", env |-> e] : e \in RawEnvs }
    \cup { [fetcher |-> "rendered", wait_strategy |-> w, env |-> e] :
             w \in WaitStrategies, e \in RenderEnvs }

InitFetcher ==
    /\ urls = <<>>
    /\ max_concurrency = 0
    /\ phase = "init"
    /\ validated_urls = <<>>
    /\ semaphore = 0
    /\ pc = <<>>
    /\ frame = <<>>
    /\ results = <<>>
    /\ raw_log = <<>>
    /\ render_log = <<>>
    /\ job = <<>>
    /\ arg \in FetchCalls
    /\ ret = <<>>

\* await RawHTMLFetcher().fetch(URL_A)
FetchRaw ==
    /\ ret = <<>>
    /\ arg.fetcher = "raw"
    /\ ret' = <<RawHTMLFetcher_fetch(URL_A, arg.env)>>
    /\ UNCHANGED <<job_vars, arg>>

\* await JSRenderedFetcher(wait_strategy=arg.wait_strategy).fetch(URL_A)
FetchRendered ==
    /\ ret = <<>>
    /\ arg.fetcher = "rendered"
    /\ ret' = <<JSRenderedFetcher_fetch(URL_A, arg.wait_strategy, arg.env)>>
    /\ UNCHANGED <<job_vars, arg>>

NextFetcher == FetchRaw \/ FetchRendered

SpecFetcher == InitFetcher /\ [][NextFetcher]_vars

\* =================================================================== claims

\* what the raw fetcher handed back to task i (defined once it returned)
raw_returned(i) == raw_log[i] # <<>> /\ ~raw_log[i][1].raised
raw_ret(i) == raw_log[i][1].ret[1]
rendered_returned(i) == render_log[i] # <<>> /\ ~render_log[i][1].raised
\* js_fetcher.fetch was called for task i (it is running or has ended)
render_invoked(i) == pc[i] = "rendered_fetch" \/ render_log[i] # <<>>
rendered_ret(i) == render_log[i][1].ret[1]
\* the URLAnalysis task i returned
analysis_of(i) == results[i][1].value[1]
\* the exception of task i came out of one of its own collaborator calls
raised_itself(i) ==
    \/ raw_log[i] # <<>> /\ raw_log[i][Len(raw_log[i])].raised
    \/ render_log[i] # <<>> /\ render_log[i][Len(render_log[i])].raised

\* C1: with max_concurrency K >= 1, in every reachable state at most K
\* per-URL tasks are between the start of their raw fetch and the
\* construction of their URLAnalysis, so a collaborator counting its active
\* invocations never sees more than K.
C1_ConcurrencyBound ==
    max_concurrency >= 1 => Cardinality(holders) <= max_concurrency

\* a task waits at the limiter while another one holds its only permit
C1_Witness ==
    /\ max_concurrency = 1
    /\ \E i, j \in Tasks : pc[i] = "rendered_fetch" /\ pc[j] = "pending"

\* C2: when a task raises, the job still returns a JobResult in which that
\* URL has one URLAnalysis with a single fetch error, final_url equal to the
\* url, http_status 0 and null fetch/content/differences fields; a task ends
\* by an exception only if one of its own calls raised, and the record of
\* every task that returned is the one it returned.
C2_FailureIsolated ==
    /\ \A i \in Tasks : pc[i] = "raised" => raised_itself(i)
    /\ phase = "returned" =>
        /\ Len(job[1].results) = Len(validated_urls)
        /\ \A i \in Tasks :
            /\ pc[i] \in {"done", "raised"}
            /\ pc[i] = "done" => job[1].results[i] = analysis_of(i)
            /\ pc[i] = "raised" =>
                LET a == job[1].results[i]
                IN  /\ a.url = validated_urls[i]
                    /\ a.final_url = validated_urls[i]
                    /\ a.http_status = 0
                    /\ Len(a.fetch_errors) = 1
                    /\ a.raw_fetch = <<>> /\ a.rendered_fetch = <<>>
                    /\ a.raw_content = <<>> /\ a.rendered_content = <<>>
                    /\ a.differences = <<>>

\* the job returned after one task raised and its sibling succeeded
C2_Witness ==
    /\ phase = "returned"
    /\ \E i, j \in Tasks :
        /\ pc[i] = "raised"
        /\ pc[j] = "done"
        /\ success(job[1].results[j])

\* C3: with K >= 1, if every collaborator call eventually returns or
\* raises, run_job_async eventually returns a JobResult.
C3_JobReturns == (max_concurrency >= 1) => <>(phase = "returned")

\* two tasks shared one permit, the first one raised, and the job returned
C3_Witness ==
    /\ phase = "returned"
    /\ max_concurrency = 1
    /\ Len(validated_urls) = 2
    /\ \E i \in Tasks : pc[i] = "raised"

\* C4: the JobResult exists only once every task has ended; its results
\* list is as long as the validated list, entry i is the analysis of
\* validated URL i (the one task i returned), and no URL appears twice.
C4_JoinInOrder ==
    job # <<>> =>
        /\ \A i \in Tasks : pc[i] \in {"done", "raised"}
        /\ Len(job[1].results) = Len(validated_urls)
        /\ \A i \in Tasks :
            /\ job[1].results[i].url = validated_urls[i]
            /\ pc[i] = "done" => job[1].results[i] = analysis_of(i)
        /\ \A i, j \in Tasks : job[1].results[i].url = job[1].results[j].url => i = j

\* a job of two URLs returned, the first of which raised
C4_Witness ==
    /\ job # <<>>
    /\ Len(validated_urls) = 2
    /\ pc[1] = "raised"
    /\ pc[2] = "done"

\* the distinct valid lines in first-seen order
RECURSIVE first_seen(_, _)
first_seen(lines, seen) ==
    IF lines = <<>> THEN <<>>
    ELSE LET u == strip(Head(lines))
         IN  IF u = <<>> \/ URLInput(PyStr(u)) # "ok" \/ u \in seen
             THEN first_seen(Tail(lines), seen)
             ELSE <<u>> \o first_seen(Tail(lines), seen \cup {u})

\* C5: _validate_and_deduplicate returns each distinct valid URL once, in
\* first-seen input order, whatever the set's iteration order.
C5_FirstSeenOrder == phase # "init" => validated_urls = first_seen(urls, {})

\* a non-empty string without surrounding whitespace that itself starts
\* with http:// or https:// (the scheme read in any letter case, as
\* __post_init__ reads it)
untrimmed_scheme_string(v) ==
    /\ v.type = "str"
    /\ v.s # <<>>
    /\ strip(v.s) = v.s
    /\ startswith(lower(v.s), HTTP) \/ startswith(lower(v.s), HTTPS)

\* C6: URLInput raises ValueError for every string with leading or trailing
\* whitespace, for the empty string, for None and for every string not
\* starting with http:// or https://; it succeeds only for non-empty strings
\* that themselves start with http:// or https://.
C6_RejectsUntrimmed == ret # "unset" => (ret = "ok" <=> untrimmed_scheme_string(arg))

\* the trimmed, non-blank input lines that pass URLInput
valid_lines ==
    {u \in {strip(urls[k]) : k \in DOMAIN urls} : u # <<>> /\ URLInput(PyStr(u)) = "ok"}

\* C7: the URLs analysed are exactly the trimmed input strings that are not
\* blank and pass URLInput; nothing else gets an analysis or is counted in
\* urls_processed, and inputs equal after trimming get a single analysis.
C7_AnalysedSet ==
    /\ phase # "init" => {validated_urls[i] : i \in Tasks} = valid_lines
    /\ phase = "returned" =>
        /\ {job[1].results[i].url : i \in DOMAIN job[1].results} = valid_lines
        /\ Len(job[1].results) = Cardinality(valid_lines)
        /\ job[1].urls_processed = Cardinality(valid_lines)

\* two different input lines, equal after trimming, were analysed once
C7_Witness ==
    /\ phase = "returned"
    /\ Len(urls) = 2
    /\ urls[1] # urls[2]
    /\ strip(urls[1]) = strip(urls[2])
    /\ Len(job[1].results) = 1

\* C8: whenever the raw fetch returned an error or no outcome, the analysis
\* has http_status 0 and final_url = url, the rendered fetcher is never
\* invoked and render_errors is empty; otherwise http_status and final_url
\* are the outcome's.
C8_RawFailureSkipsRender ==
    \A i \in Tasks :
        raw_returned(i) =>
            IF raw_ret(i).error # <<>> \/ raw_ret(i).outcome = <<>>
            THEN /\ ~render_invoked(i)
                 /\ pc[i] = "done" =>
                        /\ analysis_of(i).http_status = 0
                        /\ analysis_of(i).final_url = analysis_of(i).url
                        /\ analysis_of(i).render_errors = <<>>
            ELSE pc[i] = "done" =>
                    /\ analysis_of(i).http_status = raw_ret(i).outcome[1].status_code
                    /\ analysis_of(i).final_url = raw_ret(i).outcome[1].url

\* task i: the raw fetch returned an outcome and no error, the rendered
\* fetch an error and no outcome
render_failed_only(i) ==
    /\ pc[i] = "done"
    /\ raw_returned(i) /\ raw_ret(i).outcome # <<>> /\ raw_ret(i).error = <<>>
    /\ rendered_returned(i)
    /\ rendered_ret(i).outcome = <<>> /\ truthy_msg(rendered_ret(i).error)

\* what the claim says of such a task, but for raw_content
render_failure_recorded(i) ==
    LET a == analysis_of(i)
    IN  /\ a.render_errors # <<>>
        /\ a.rendered_content = <<>>
        /\ a.differences = <<>>
        /\ ~(a.fetch_errors = <<>> /\ a.render_errors = <<>>
             /\ a.extraction_errors = <<>> /\ a.raw_content # <<>>)
        /\ phase = "returned" =>
            /\ job[1].results[i] = a
            /\ job[1].urls_failed >= 1
            /\ job[1].urls_succeeded <= Len(job[1].results) - 1

\* C9 as stated: raw fetch fine, rendered fetch failed: raw_content is
\* populated, render_errors non-empty, rendered_content and differences
\* null, success false, and the URL is counted in urls_failed.
C9_RawContentPopulated ==
    \A i \in Tasks :
        render_failed_only(i) =>
            analysis_of(i).raw_content # <<>> /\ render_failure_recorded(i)

\* C9 amended: ... raw_content is populated unless the extractor raised on
\* the raw HTML, in which case raw_content is null and extraction_errors
\* holds that one message; the rest as stated.
C9_RawContentUnlessExtractorRaised ==
    \A i \in Tasks :
        render_failed_only(i) =>
            /\ render_failure_recorded(i)
            /\ IF extractor_raises(raw_ret(i).outcome[1].html)
               THEN /\ analysis_of(i).raw_content = <<>>
                    /\ Len(analysis_of(i).extraction_errors) = 1
               ELSE /\ analysis_of(i).raw_content # <<>>
                    /\ analysis_of(i).extraction_errors = <<>>

\* the job returned with a URL whose rendered fetch alone failed and whose
\* raw HTML was extracted
C9_Witness ==
    /\ phase = "returned"
    /\ \E i \in Tasks : render_failed_only(i) /\ analysis_of(i).raw_content # <<>>

C11_PermitsConserved ==
    phase # "init" =>
        /\ semaphore + Cardinality(holders) = max_concurrency
        /\ \A i \in Tasks :
            pc[i] = "pending" => raw_log[i] = <<>> /\ render_log[i] = <<>>
        /\ phase = "returned" => semaphore = max_concurrency

\* the join returned after one task ended by an exception and another by
\* returning its URLAnalysis
C11_Witness ==
    /\ phase = "returned"
    /\ max_concurrency >= 1
    /\ semaphore = max_concurrency
    /\ \E i, j \in Tasks : pc[i] = "raised" /\ pc[j] = "done"

\* the report compare returned, and the two contents it was given
report == ret[1]

\* C12: compare(X, X) returns all six difference lists empty, and
\* word_count_delta, word_count_percentage_change and
\* content_invisible_without_js_percentage all 0, for every content X, with
\* duplicated headings, duplicated links and mixed-case text included.
C12_CompareIdentity ==
    (ret # <<>> /\ arg.raw = arg.rendered) =>
        /\ report.text_only_with_js = <<>>
        /\ report.text_only_without_js = <<>>
        /\ report.headings_missing_without_js = <<>>
        /\ report.headings_extra_without_js = <<>>
        /\ report.internal_links_missing_without_js = <<>>
        /\ report.internal_links_extra_without_js = <<>>
        /\ word_count_delta(report) = 0
        /\ word_count_percentage_change(report) = 0
        /\ content_invisible_without_js_percentage(report) = 0

\* a content with a repeated heading, a repeated link and a word in both
\* cases has been compared with itself
C12_Witness ==
    /\ ret # <<>>
    /\ arg.raw = arg.rendered
    /\ \E i, j \in DOMAIN arg.raw.headings : i < j /\ arg.raw.headings[i] = arg.raw.headings[j]
    /\ \E i, j \in DOMAIN arg.raw.internal_links :
          i < j /\ arg.raw.internal_links[i] = arg.raw.internal_links[j]
    /\ \E v, w \in ToSet(split(arg.raw.visible_text)) : v # w /\ lower(v) = lower(w)

\* the lower-cased token set of a text
token_set(text) == {lower(w) : w \in ToSet(split(text))}

\* <<i, j>>: words i..j of `text` are absent from the other side, the words
\* around them are not, and there are at least `least` of them
maximal_runs(text, other, least) ==
    LET ws == split(text)
        n == Len(ws)
        absent(k) == lower(ws[k]) \notin token_set(other)
    IN  { r \in (1..n) \X (1..n) :
            /\ r[1] <= r[2]
            /\ r[2] - r[1] + 1 >= least
            /\ \A k \in r[1]..r[2] : absent(k)
            /\ r[1] = 1 \/ ~absent(r[1] - 1)
            /\ r[2] = n \/ ~absent(r[2] + 1) }

\* `blocks` holds each of these runs once, in scan order, as its words in
\* their original casing with single spaces between them
blocks_are_runs(blocks, text, other) ==
    LET runs == maximal_runs(text, other, 3)
    IN  /\ Len(blocks) = Cardinality(runs)
        /\ \A r \in runs :
            blocks[Cardinality({q \in runs : q[1] < r[1]}) + 1]
                = join(<<" ">>, SubSeq(split(text), r[1], r[2]))

\* C13: the text blocks of each side are exactly the maximal contiguous
\* runs, in that side's whitespace-tokenized text, of tokens whose lower-cased
\* form is absent from the other side's lower-cased token set and that are at
\* least 3 tokens long: each run once, in scan order, casing kept, joined by
\* single spaces; a run of 1 or 2 tokens is never emitted, at the end of the
\* text either.
C13_BlocksAreMaximalRuns ==
    ret # <<>> =>
        /\ blocks_are_runs(report.text_only_with_js,
                           arg.rendered.visible_text, arg.raw.visible_text)
        /\ blocks_are_runs(report.text_only_without_js,
                           arg.raw.visible_text, arg.rendered.visible_text)
        /\ \A k \in DOMAIN report.text_only_with_js :
              Len(split(report.text_only_with_js[k])) >= 3
        /\ \A k \in DOMAIN report.text_only_without_js :
              Len(split(report.text_only_without_js[k])) >= 3

\* a text gave two blocks, one closed by a shared word and one by the end of
\* the text, and another text ended in a run of two words that gave none
C13_Witness ==
    /\ ret # <<>>
    /\ Len(report.text_only_with_js) = 2
    /\ report.text_only_with_js[2] = <<"B", " ", "b", " ", "a">>
    /\ report.text_only_without_js = <<>>
    /\ maximal_runs(arg.raw.visible_text, arg.rendered.visible_text, 1) # {}

\* |x|
abs(x) == IF x < 0 THEN 0 - x ELSE x

\* C18 (as stated): word_count_delta = rendered - raw; the percentage change
\* is 0 when raw is 0; the invisible percentage is 0 when rendered <= raw and
\* otherwise equals (rendered - raw) * 100 / rendered, so it lies in
\* [0, 100]; 'a b c' against 'a b c d e f' gives delta 3 and 50 percent.
\* Percentages are in hundredths.
C18_MetricsExact ==
    ret # <<>> =>
        LET raw == report.raw_word_count
            rendered == report.rendered_word_count
            invisible == content_invisible_without_js_percentage(report)
        IN  /\ word_count_delta(report) = rendered - raw
            /\ raw = 0 => word_count_percentage_change(report) = 0
            /\ rendered <= raw => invisible = 0
            /\ rendered > raw => invisible * rendered = (rendered - raw) * 10000
            /\ invisible >= 0 /\ invisible <= 10000
            /\ (arg.raw.visible_text = ExampleRaw /\ arg.rendered.visible_text = ExampleRendered)
                 => word_count_delta(report) = 3 /\ invisible = 5000

\* C18 (amended): as above, the invisible percentage of rendered > raw being
\* (rendered - raw) * 100 / rendered rounded to two decimal places.
C18_MetricsRounded ==
    ret # <<>> =>
        LET raw == report.raw_word_count
            rendered == report.rendered_word_count
            invisible == content_invisible_without_js_percentage(report)
        IN  /\ word_count_delta(report) = rendered - raw
            /\ raw = 0 => word_count_percentage_change(report) = 0
            /\ rendered <= raw => invisible = 0
            /\ rendered > raw =>
                 2 * abs(invisible * rendered - (rendered - raw) * 10000) <= rendered
            /\ invisible >= 0 /\ invisible <= 10000
            /\ (arg.raw.visible_text = ExampleRaw /\ arg.rendered.visible_text = ExampleRendered)
                 => word_count_delta(report) = 3 /\ invisible = 5000

\* one raw word against three rendered ones: 66.67, not two thirds of 100
C18_Witness ==
    /\ ret # <<>>
    /\ report.raw_word_count = 1
    /\ report.rendered_word_count = 3
    /\ content_invisible_without_js_percentage(report) = 6667

\* the number of words of a text: the characters that start one
count_words(text) ==
    Cardinality({i \in DOMAIN text :
                    text[i] \notin Whitespace /\ (i = 1 \/ text[i - 1] \in Whitespace)})

\* the rendered words with no counterpart in the raw text's token set
words_absent_from_raw ==
    LET ws == split(arg.rendered.visible_text)
    IN  {k \in DOMAIN ws : lower(ws[k]) \notin token_set(arg.raw.visible_text)}

\* C19 (as stated): the invisible percentage of the report compare returned
\* is the percentage (to two decimals) of the rendered words that have no
\* counterpart in the raw text's token set, so it is non-zero whenever some
\* rendered word is absent from that set.
C19_InvisibleByTokens ==
    ret # <<>> =>
        LET rendered == count_words(arg.rendered.visible_text)
            invisible == content_invisible_without_js_percentage(report)
        IN  /\ rendered = 0 => invisible = 0
            /\ rendered > 0 =>
                 2 * abs(invisible * rendered - Cardinality(words_absent_from_raw) * 10000)
                    <= rendered
            /\ words_absent_from_raw # {} => invisible > 0

\* C19 (amended): the invisible percentage depends on the two texts through
\* their word counts only: it is 0 when the rendered text has no more words
\* than the raw one, and otherwise the share (rendered - raw) / rendered of
\* the rendered count as a percentage to two decimals, whichever words the
\* texts are made of.
C19_InvisibleByCounts ==
    ret # <<>> =>
        LET raw == count_words(arg.raw.visible_text)
            rendered == count_words(arg.rendered.visible_text)
            invisible == content_invisible_without_js_percentage(report)
        IN  /\ rendered <= raw => invisible = 0
            /\ rendered > raw =>
                 2 * abs(invisible * rendered - (rendered - raw) * 10000) <= rendered

\* every rendered word is absent from the raw text, and the percentage is 0
C19_Witness ==
    /\ ret # <<>>
    /\ arg.rendered.visible_text # <<>>
    /\ Cardinality(words_absent_from_raw) = count_words(arg.rendered.visible_text)
    /\ content_invisible_without_js_percentage(report) = 0

\* the ExtractedContent extract returned, and what is left of the document
\* after _remove_ignored_elements
content == ret[1]
kept_elements == DOMAIN arg.html \ remove_ignored_elements(arg.html)

\* the texts of the non-empty heading elements from j on, as they follow
\* each other in the document
RECURSIVE headings_in_document_order(_)
headings_in_document_order(j) ==
    IF j > Len(arg.html) THEN <<>>
    ELSE LET text == get_text(arg.html, DOMAIN arg.html \ kept_elements, j, TRUE)
         IN  (IF /\ j \in kept_elements
                 /\ arg.html[j].tag \in ToSet(HEADING_TAGS)
                 /\ text # <<>>
              THEN <<text>> ELSE <<>>)
             \o headings_in_document_order(j + 1)

\* C14: extract returns the texts of all non-empty h1-h6 elements in
\* document order, not grouped by level; for h3 'Third', h1 'First',
\* h2 'Second' the headings are ['Third', 'First', 'Second'].
C14_HeadingsInDocumentOrder ==
    ret # <<>> =>
        /\ content.headings = headings_in_document_order(1)
        /\ arg.html = TestHeadingOrder =>
             content.headings = <<<<"T", "h", "i", "r", "d">>,
                                  <<"F", "i", "r", "s", "t">>,
                                  <<"S", "e", "c", "o", "n", "d">>>>

\* the element's inline style declares display none or visibility hidden,
\* with or without a space after the colon, or its aria-hidden is 'true' in
\* any letter case
declared_hidden(element) ==
    \/ \E declaration \in { DISPLAY_NONE, <<"d", "i", "s", "p", "l", "a", "y", ":", " ", "n", "o", "n", "e">>,
                            VISIBILITY_HIDDEN,
                            <<"v", "i", "s", "i", "b", "i", "l", "i", "t", "y", ":", " ", "h", "i", "d", "d", "e", "n">> } :
          contains(lower(element.style), declaration)
    \/ lower(element.aria_hidden) = <<"t", "r", "u", "e">>

\* C15: a text under an element declared hidden in one of these ways, at any
\* depth below it, never appears in visible_text.
C15_HiddenTextExcluded ==
    ret # <<>> =>
        \A i \in DOMAIN arg.html :
            (/\ \E a \in parents(arg.html, i) : declared_hidden(arg.html[a])
             /\ strip(arg.html[i].text) # <<>>)
            => ~contains(content.visible_text, normalize_whitespace(arg.html[i].text))

\* the anchors whose link the filter of C16 lets through and the extractor
\* classifies internal, from j on
link_passes(j) ==
    LET e == arg.html[j]
        gone == DOMAIN arg.html \ kept_elements
    IN  /\ j \in kept_elements
        /\ e.tag = "a"
        /\ e.href # <<>>
        /\ strip(e.href[1]) # <<>>
        /\ ~\E prefix \in { <<"j", "a", "v", "a", "s", "c", "r", "i", "p", "t", ":">>,
                            <<"m", "a", "i", "l", "t", "o", ":">>, <<"t", "e", "l", ":">>, <<"#">> } :
              startswith(strip(e.href[1]), prefix)
        /\ strip(get_text(arg.html, gone, j, FALSE)) # <<>>
        /\ is_internal_link(resolved_href(strip(e.href[1]), arg.base_url), arg.base_url)

RECURSIVE passing_anchors(_)
passing_anchors(j) ==
    IF j > Len(arg.html) THEN <<>>
    ELSE (IF link_passes(j) THEN <<j>> ELSE <<>>) \o passing_anchors(j + 1)

\* C16: internal_links holds no link whose source href begins with
\* javascript:, mailto:, tel: or #, none with an empty or whitespace-only
\* anchor text and none with an empty href; the other links the extractor
\* classifies internal are all there, in document order, repeated ones too.
C16_LinkFilter ==
    ret # <<>> =>
        LET sources == passing_anchors(1)
        IN  /\ Len(content.internal_links) = Len(sources)
            /\ \A k \in DOMAIN sources :
                LET e == arg.html[sources[k]]
                IN  /\ content.internal_links[k].href
                         = resolved_href(strip(e.href[1]), arg.base_url)
                    /\ content.internal_links[k].anchor_text # <<>>
                    /\ strip(content.internal_links[k].anchor_text)
                         = content.internal_links[k].anchor_text
                    /\ e.href[1] # <<>>
                    /\ ~\E prefix \in { <<"j", "a", "v", "a", "s", "c", "r", "i", "p", "t", ":">>,
                                        <<"m", "a", "i", "l", "t", "o", ":">>, <<"t", "e", "l", ":">>,
                                        <<"#">> } : startswith(e.href[1], prefix)

\* a tel: link with an anchor text was dropped and the link after it kept
C16_Witness ==
    /\ ret # <<>>
    /\ Len(arg.html) = 2
    /\ arg.html[1].href = <<<<"t", "e", "l", ":", "1">>>>
    /\ arg.html[1].text = <<"w">>
    /\ Len(content.internal_links) = 1
    /\ content.internal_links[1].href = <<"h", "t", "t", "p", ":", "/", "/", "e", ".", "c", "/", "p">>

\* str.removeprefix("www.")
without_leading_www(host) ==
    IF startswith(host, WWW) THEN SubSeq(host, Len(WWW) + 1, Len(host)) ELSE host

\* the anchors that pass the filter of C16, whatever their host
link_candidate(j) ==
    LET e == arg.html[j]
    IN  /\ j \in kept_elements
        /\ e.tag = "a"
        /\ e.href # <<>>
        /\ strip(e.href[1]) # <<>>
        /\ ~\E prefix \in SKIPPED_PREFIXES : startswith(strip(e.href[1]), prefix)
        /\ get_text(arg.html, DOMAIN arg.html \ kept_elements, j, TRUE) # <<>>

\* C17: with a base URL a resolved link is internal iff its host equals the
\* base URL's host after removing only a leading 'www.' from each, so that
\* no other 'www.' is removed and another subdomain is external; without a
\* base URL every link is internal.
C17_InternalByLeadingWww ==
    ret # <<>> =>
        \A j \in DOMAIN arg.html :
            link_candidate(j) =>
                LET href == resolved_href(strip(arg.html[j].href[1]), arg.base_url)
                    internal == \E k \in DOMAIN content.internal_links :
                                    content.internal_links[k].href = href
                IN  internal <=>
                        \/ ~has_base(arg.base_url)
                        \/ without_leading_www(netloc(href))
                             = without_leading_www(netloc(arg.base_url[1]))

\* what the fetch call did
fetched == ret[1]

\* C20: every call of RawHTMLFetcher.fetch and of JSRenderedFetcher.fetch
\* returns either an outcome without error or no outcome with an error
\* message, never both, never neither, and never raises; a timeout, a
\* transport failure, a missing response and a browser that cannot be
\* started give no outcome and an error; a non-2xx response gives an
\* outcome without error whose success predicate is false.
C20_OutcomeXorError ==
    ret # <<>> =>
        LET failed == fetched.outcome = <<>> /\ fetched.error # <<>>
        IN  /\ ~fetched.raised
            /\ (fetched.outcome # <<>>) # (fetched.error # <<>>)
            /\ fetched.error # <<>> => fetched.error[1] # ""
            /\ (arg.fetcher = "raw" /\ arg.env.get \in {"TimeoutException", "ConnectError"})
                 => failed
            /\ (arg.fetcher = "rendered" /\
                  (arg.env.launch # "ok" \/ arg.env.new_page # "ok"
                     \/ arg.env.goto \in {"none", "PlaywrightTimeoutError"}))
                 => failed
            /\ (arg.fetcher = "raw" /\ arg.env.get = "ok"
                  /\ ~(arg.env.status_code \in 200..299))
                 => /\ fetched.outcome # <<>>
                    /\ fetched.error = <<>>
                    /\ ~RawFetchResult_success(fetched.outcome[1])

\* the navigation timed out and closing the browser failed in the handler:
\* the call still returned an error message, that of the outer handler
C20_Witness ==
    /\ ret # <<>>
    /\ arg.fetcher = "rendered"
    /\ arg.env.goto = "PlaywrightTimeoutError"
    /\ arg.env.close # "ok"
    /\ fetched.outcome = <<>>
    /\ fetched.error = <<"Browser initialization error">>

\* the fetch stage of task i failed: it raised, or returned an error message
raw_failed(i) ==
    raw_log[i] # <<>> /\ (raw_log[i][1].raised \/ truthy_msg(raw_log[i][1].ret[1].error))
render_failed(i) ==
    render_log[i] # <<>>
    /\ (render_log[i][1].raised \/ truthy_msg(render_log[i][1].ret[1].error))

\* C21: for every validated URL the raw fetcher is called at most once at
\* any time and exactly once by the time its task has ended, the rendered
\* fetcher at most once and only after the raw call of the same URL has
\* returned; a call that failed is not repeated; and a URL has extraction
\* or comparison results only after its fetch calls have returned.
C21_StagesOnceInOrder ==
    \A i \in Tasks :
        /\ Len(raw_log[i]) <= 1
        /\ Len(render_log[i]) <= 1
        /\ pc[i] = "pending" => raw_log[i] = <<>> /\ render_log[i] = <<>>
        /\ pc[i] = "raw_fetch" => raw_log[i] = <<>> /\ ~render_invoked(i)
        /\ pc[i] \in {"done", "raised"} => Len(raw_log[i]) = 1
        /\ render_invoked(i) => raw_returned(i)
        /\ pc[i] = "rendered_fetch" => render_log[i] = <<>>
        /\ results[i] # <<>> /\ ~results[i][1].exception =>
            /\ raw_returned(i)
            /\ render_invoked(i) => rendered_returned(i)
            /\ LET a == analysis_of(i)
               IN  /\ a.raw_content # <<>> => raw_ret(i).outcome # <<>>
                   /\ a.rendered_content # <<>> =>
                        rendered_returned(i) /\ rendered_ret(i).outcome # <<>>
                   /\ a.differences # <<>> => rendered_returned(i)

\* the job returned after one URL's raw fetch and another URL's rendered
\* fetch had each failed on their only call
C21_Witness ==
    /\ phase = "returned"
    /\ \E i, j \in Tasks :
        /\ raw_failed(i) /\ Len(raw_log[i]) = 1 /\ render_log[i] = <<>>
        /\ render_failed(j) /\ Len(raw_log[j]) = 1 /\ Len(render_log[j]) = 1

\* C22: in every URLAnalysis _process_url returned, rendered_content is
\* non-null only if the rendered outcome is present with its success flag
\* true, raw_content is non-null only if a raw outcome is present, and
\* differences is non-null only if raw_content and rendered_content both are.
C22_ContentsNeedOutcomes ==
    \A i \in Tasks :
        pc[i] = "done" =>
            LET a == analysis_of(i)
            IN  /\ a.rendered_content # <<>> =>
                    /\ a.rendered_fetch # <<>>
                    /\ a.rendered_fetch[1].success
                    /\ rendered_returned(i)
                    /\ a.rendered_fetch = rendered_ret(i).outcome
                /\ a.raw_content # <<>> =>
                    /\ a.raw_fetch # <<>>
                    /\ a.raw_fetch = raw_ret(i).outcome
                /\ a.differences # <<>> =>
                    a.raw_content # <<>> /\ a.rendered_content # <<>>

\* a rendered outcome with success false and no error message came back
\* beside a good raw outcome: the analysis has a raw extraction, no rendered
\* extraction and no differences
C22_Witness ==
    \E i \in Tasks :
        /\ pc[i] = "done"
        /\ rendered_returned(i)
        /\ rendered_ret(i).outcome # <<>>
        /\ ~rendered_ret(i).outcome[1].success
        /\ rendered_ret(i).error = <<>>
        /\ analysis_of(i).raw_content # <<>>
        /\ analysis_of(i).rendered_content = <<>>
        /\ analysis_of(i).differences = <<>>
        /\ analysis_of(i).render_errors = <<>>

\* the stages of task i, read off what its fetchers returned and what its
\* analysis holds
raw_extraction_raised(i) ==
    raw_ret(i).outcome # <<>> /\ extractor_raises(raw_ret(i).outcome[1].html)
rendered_extraction_ran(i) ==
    /\ rendered_returned(i)
    /\ rendered_ret(i).outcome # <<>>
    /\ rendered_ret(i).outcome[1].success
rendered_extraction_raised(i) ==
    rendered_extraction_ran(i) /\ extractor_raises(rendered_ret(i).outcome[1].html)
comparison_raised(i) ==
    /\ analysis_of(i).raw_content # <<>>
    /\ analysis_of(i).rendered_content # <<>>
    /\ analysis_of(i).differences = <<>>
one_if(b) == IF b THEN 1 ELSE 0

\* C23: an exception of the Extractor (on the raw or on the rendered HTML)
\* or of the Differ does not end the per-URL task: the task returns its own
\* record, one message per raising stage is in extraction_errors, the
\* result of that stage is null, the stages after it have still run, and
\* http_status and final_url are the raw outcome's.
C23_ExtractionFailureContained ==
    \A i \in Tasks :
        /\ pc[i] = "raised" => raised_itself(i)
        /\ pc[i] = "done" /\ raw_ret(i).outcome # <<>> =>
            LET a == analysis_of(i)
            IN  /\ a.raw_content = <<>> <=> raw_extraction_raised(i)
                /\ rendered_extraction_ran(i) =>
                    (a.rendered_content = <<>> <=> rendered_extraction_raised(i))
                /\ Len(a.extraction_errors) =
                      one_if(raw_extraction_raised(i))
                      + one_if(rendered_extraction_raised(i))
                      + one_if(comparison_raised(i))
                /\ raw_extraction_raised(i) =>
                      a.extraction_errors[1] = "Raw content extraction failed"
                /\ rendered_extraction_raised(i) =>
                      a.extraction_errors[Len(a.extraction_errors)]
                          = "Rendered content extraction failed"
                /\ comparison_raised(i) =>
                      a.extraction_errors = <<"Content comparison failed">>
                /\ a.raw_fetch = raw_ret(i).outcome
                /\ raw_ret(i).error = <<>> =>
                    /\ a.http_status = raw_ret(i).outcome[1].status_code
                    /\ a.final_url = raw_ret(i).outcome[1].url
                    /\ a.fetch_errors = <<>>
                /\ phase = "returned" => job[1].results[i] = a

\* the job returned two records: one whose raw extraction raised while its
\* rendered extraction still produced a content, under the status of its
\* raw outcome, and one whose comparison raised
C23_Witness ==
    /\ phase = "returned"
    /\ \E i, j \in Tasks :
        /\ pc[i] = "done" /\ pc[j] = "done"
        /\ raw_ret(i).outcome # <<>> /\ raw_ret(i).error = <<>>
        /\ raw_extraction_raised(i)
        /\ analysis_of(i).rendered_content # <<>>
        /\ analysis_of(i).http_status = 200
        /\ raw_ret(j).outcome # <<>>
        /\ comparison_raised(j)

\* the raw outcome of task i, had its status been 200
raw_outcome_200(i) == <<[raw_ret(i).outcome[1] EXCEPT !.status_code = 200]>>
\* the analysis of task i, had the status of its raw outcome been 200
analysis_with_200(i) ==
    finish_url(validated_urls[i],
               after_raw_fetch(validated_urls[i], raw_outcome_200(i), raw_ret(i).error),
               rendered_ret(i).outcome,
               analysis_of(i).render_errors,
               comparison_raised(i))
no_stage_error(a) ==
    a.fetch_errors = <<>> /\ a.render_errors = <<>> /\ a.extraction_errors = <<>>

\* C28: the status of a raw outcome that came without error message has no
\* influence: nothing is added to fetch_errors, the rendered fetch is
\* invoked, the record is the one a status of 200 would have given but for
\* http_status and the raw outcome itself, and the URL is counted as
\* succeeded exactly when no stage reported an error.
C28_StatusHasNoInfluence ==
    /\ \A i \in Tasks :
        raw_returned(i) /\ raw_ret(i).outcome # <<>> /\ raw_ret(i).error = <<>> =>
            /\ render_invoked(i)
            /\ pc[i] = "done" =>
                LET a == analysis_of(i)
                IN  /\ a.fetch_errors = <<>>
                    /\ a.http_status = raw_ret(i).outcome[1].status_code
                    /\ a = [analysis_with_200(i) EXCEPT
                               !.http_status = a.http_status,
                               !.raw_fetch = raw_ret(i).outcome]
                    /\ a.raw_content # <<>> <=> ~raw_extraction_raised(i)
                    /\ success(a) <=> no_stage_error(a)
    /\ phase = "returned" =>
        job[1].urls_succeeded =
            Cardinality({i \in Tasks : pc[i] = "done" /\ no_stage_error(analysis_of(i))
                                        /\ analysis_of(i).raw_content # <<>>})

\* a job returned with urls_failed = 0 although one of its URLs answered
\* 404: that page was rendered, extracted and compared
C28_Witness ==
    /\ phase = "returned"
    /\ job[1].urls_failed = 0
    /\ \E i \in Tasks :
        /\ job[1].results[i].http_status = 404
        /\ job[1].results[i].differences # <<>>
        /\ success(job[1].results[i])

\* run_job_async was given max_concurrency = 0 and at least one valid URL
starved == max_concurrency = 0 /\ phase # "init" /\ Len(validated_urls) >= 1

\* C30: with max_concurrency = 0 and at least one valid URL every task
\* waits at the limiter for ever: no fetcher is called and run_job_async
\* does not return; with no valid URL run_job_async returns, for every
\* max_concurrency >= 0, a JobResult with urls_processed = 0 and no call made.
C30_ZeroConcurrencyStarves ==
    /\ [](starved =>
            /\ phase = "gather"
            /\ semaphore = 0
            /\ \A i \in Tasks :
                pc[i] = "pending" /\ raw_log[i] = <<>> /\ render_log[i] = <<>>)
    /\ (validated_set(urls) = {} =>
            <>(/\ phase = "returned"
               /\ job[1].urls_processed = 0
               /\ job[1].results = <<>>
               /\ Tasks = {}))

\* two valid URLs were handed to a runner with max_concurrency = 0: both
\* tasks were created and wait at the limiter
C30_Witness ==
    /\ max_concurrency = 0
    /\ phase = "gather"
    /\ Len(validated_urls) = 2
    /\ \A i \in Tasks : pc[i] = "pending"
    /\ ~ENABLED Next

\* the first index of x in the list l
first_index(l, x) == CHOOSE k \in DOMAIN l : l[k] = x /\ \A m \in 1..(k - 1) : l[m] # x
\* `result` holds exactly the distinct headings of `from` that `other`
\* lacks, each once, in the order of their first index in `from`
distinct_in_first_index_order(result, from, other) ==
    /\ ToSet(result) = ToSet(from) \ ToSet(other)
    /\ Cardinality(ToSet(result)) = Len(result)
    /\ \A p, q \in DOMAIN result :
        p < q => first_index(from, result[p]) < first_index(from, result[q])

\* C24: the headings reported missing without JS are exactly the distinct
\* headings of the rendered list that the raw list lacks (by string
\* equality), in the order of their first index in the rendered list; the
\* headings reported extra are those of the raw list the rendered list
\* lacks, in the order of their first index in the raw list; no heading is
\* reported twice and the two lists are disjoint.
C24_HeadingsByFirstIndex ==
    ret # <<>> =>
        /\ distinct_in_first_index_order(report.headings_missing_without_js,
                                         arg.rendered.headings, arg.raw.headings)
        /\ distinct_in_first_index_order(report.headings_extra_without_js,
                                         arg.raw.headings, arg.rendered.headings)
        /\ ToSet(report.headings_missing_without_js)
             \cap ToSet(report.headings_extra_without_js) = {}

\* a rendered list in which a heading comes back after another one was
\* compared with a raw list holding a heading of its own, in another case:
\* two headings are reported missing, one extra
C24_Witness ==
    /\ ret # <<>>
    /\ \E i, j \in DOMAIN arg.rendered.headings :
        /\ i + 1 < j
        /\ arg.rendered.headings[i] = arg.rendered.headings[j]
        /\ arg.rendered.headings[i] \notin ToSet(arg.raw.headings)
    /\ Len(report.headings_missing_without_js) = 2
    /\ Len(report.headings_extra_without_js) = 1
    /\ \E h \in ToSet(arg.raw.headings) :
        /\ h \notin ToSet(arg.rendered.headings)
        /\ \E g \in ToSet(arg.rendered.headings) : lower(g) = lower(h)

\* report d is report e with the raw and the rendered side exchanged
exchanged(d, e) ==
    /\ d.text_only_with_js = e.text_only_without_js
    /\ d.text_only_without_js = e.text_only_with_js
    /\ d.headings_missing_without_js = e.headings_extra_without_js
    /\ d.headings_extra_without_js = e.headings_missing_without_js
    /\ ToSet(d.internal_links_missing_without_js) = ToSet(e.internal_links_extra_without_js)
    /\ ToSet(d.internal_links_extra_without_js) = ToSet(e.internal_links_missing_without_js)
    /\ Len(d.internal_links_missing_without_js) = Len(e.internal_links_extra_without_js)
    /\ Len(d.internal_links_extra_without_js) = Len(e.internal_links_missing_without_js)
    /\ d.raw_word_count = e.rendered_word_count
    /\ d.rendered_word_count = e.raw_word_count
    /\ d.raw_heading_count = e.rendered_heading_count
    /\ d.rendered_heading_count = e.raw_heading_count
    /\ d.raw_internal_link_count = e.rendered_internal_link_count
    /\ d.rendered_internal_link_count = e.raw_internal_link_count
    /\ word_count_delta(d) = 0 - word_count_delta(e)

\* C29: compare(A, B) and compare(B, A) are each other's mirror image: the
\* two text lists, the two heading lists and the raw and rendered counters
\* are exchanged, the two link lists are exchanged as sets, and
\* word_count_delta is negated.
C29_CompareAntisymmetric ==
    ret # <<>> =>
        \A e \in ContentDiffer_compare(arg.rendered, arg.raw) : exchanged(report, e)

\* two texts that each hold a block of words of their own, of different
\* lengths, were compared
C29_Witness ==
    /\ ret # <<>>
    /\ report.text_only_with_js # <<>>
    /\ report.text_only_without_js # <<>>
    /\ report.text_only_with_js # report.text_only_without_js
    /\ word_count_delta(report) # 0

\* the element hides itself by its inline style or its aria-hidden attribute
hidden_by_style_or_aria(element) ==
    \/ contains(lower(element.style), DISPLAY_NONE)
    \/ contains(lower(element.style), VISIBILITY_HIDDEN)
    \/ lower(element.aria_hidden) = <<"t", "r", "u", "e">>
\* one of the element's classes is the token 'hidden'
has_hidden_token(element) == \E i \in DOMAIN element.class : lower(element.class[i]) = HIDDEN
\* one of its classes holds 'hidden' inside a longer token
has_hidden_substring_only(element) ==
    /\ ~has_hidden_token(element)
    /\ \E i \in DOMAIN element.class : contains(lower(element.class[i]), HIDDEN)

\* C25: class-based hiding takes the literal token 'hidden': the text of a
\* kept element is in visible_text when neither the element nor any of its
\* ancestors hides itself by style or aria-hidden or has the class token
\* 'hidden', even if one of them has a class such as 'overflow-hidden' or
\* 'hidden-xs'.
C25_HiddenIsAClassToken ==
    ret # <<>> =>
        \A i \in kept_elements :
            (/\ strip(arg.html[i].text) # <<>>
             /\ \A a \in parents(arg.html, i) :
                    /\ ~hidden_by_style_or_aria(arg.html[a])
                    /\ ~has_hidden_token(arg.html[a]))
            => contains(content.visible_text, normalize_whitespace(arg.html[i].text))

\* host is a subdomain of base: it ends with a dot and base
is_subdomain(host, base) ==
    /\ Len(host) > Len(base) + 1
    /\ SubSeq(host, Len(host) - Len(base), Len(host)) = <<".">> \o base
\* neither host is the other one or a subdomain of it
unrelated_hosts(host, base) ==
    host # base /\ ~is_subdomain(host, base) /\ ~is_subdomain(base, host)
listed_internal(href) ==
    \E k \in DOMAIN content.internal_links : content.internal_links[k].href = href

\* C27: seen from a base URL (such as https://example.com), a link whose
\* host is a subdomain of the base host (https://sub.example.com/page) is in
\* internal_links and a link to an unrelated host (https://other.com) is
\* not; hosts that hold 'www.' are left to C17.
C27_SubdomainIsInternal ==
    (ret # <<>> /\ has_base(arg.base_url) /\ ~contains(netloc(arg.base_url[1]), WWW)) =>
        \A j \in DOMAIN arg.html :
            LET href == resolved_href(strip(arg.html[j].href[1]), arg.base_url)
                host == netloc(href)
                base == netloc(arg.base_url[1])
            IN  (link_candidate(j) /\ ~contains(host, WWW)) =>
                    /\ is_subdomain(host, base) => listed_internal(href)
                    /\ unrelated_hosts(host, base) => ~listed_internal(href)

\* the call was made with a wait strategy that is none of the three
unknown_strategy ==
    arg.fetcher = "rendered" /\ arg.wait_strategy \notin {"network_idle", "load", "timeout"}

\* C26: with a wait strategy that is none of 'network_idle', 'load' and
\* 'timeout' the rendered fetch returns what it returns under
\* 'network_idle': when the page loads and the wait for network idle
\* succeeds or times out, it returns the rendered outcome and no error.
C26_UnknownStrategyIsNetworkIdle ==
    (ret # <<>> /\ unknown_strategy) =>
        /\ fetched = JSRenderedFetcher_fetch(URL_A, "network_idle", arg.env)
        /\ (/\ arg.env.launch = "ok" /\ arg.env.new_page = "ok"
            /\ arg.env.goto = "response"
            /\ arg.env.wait \in {"ok", "PlaywrightTimeoutError"}
            /\ arg.env.content = "ok" /\ arg.env.close = "ok")
           => (~fetched.raised /\ fetched.outcome # <<>> /\ fetched.error = <<>>)

=============================================================================
